---- MODULE Spec2Model ----
(***************************************************************************)
(* Inventory management client: the stock-status classification, the      *)
(* product listing query (InventoryAPI.getProducts against the listing    *)
(* endpoint), and the two products-page scripts (static/js/products.js,   *)
(* which paginates on the client, and the inline products script          *)
(* unnamed/part_000, which paginates on the server); the edit, delete and *)
(* save flows of both scripts and the dashboard's statistics against the  *)
(* product store behind the API; InventoryAPI.request; the debounced      *)
(* search input in time; and listing requests that overlap.               *)
(***************************************************************************)
EXTENDS Integers, Sequences, FiniteSets, TLC

\* ------------------------------------------------------------------ bounds
\* largest stock quantity classified
MaxStock == 12
\* longest search text typed into the listing query
MaxSearchLen == 2
\* largest number of products a listing matches
MaxProducts == 11
\* cap on products.js currentPage (the Next button never stops at n = 0)
MaxPage == 4
\* listing requests in flight at once
MaxPending == 1
\* writes to the product store that set a timestamp (creates and updates)
MaxClock == 2
\* input events on the search box in one session
MaxEvents == 2
\* milliseconds by which time passes in one step
TimeUnit == 100
\* listing requests in flight at once when requests overlap
MaxOverlap == 2

\* ------------------------------------------------------- program constants
\* products.js: const productsPerPage = 10
productsPerPage == 10
\* part_000 loadProducts: per_page: 10
per_page == 10
\* products.js setupEventListeners: debounce(handleSearch, 300)
searchDebounce == 300
\* part_000 setupSearch: setTimeout(..., 500)
searchTimeoutDelay == 500

VARIABLES
    \* --- stock status (pure functions applied to one stock quantity)
    stock, statusClass, statusText, dashStatusText, statusBadge,
    \* --- listing query: InventoryAPI.getProducts against the product store
    store, filters, query, listing, listPc,
    \* --- which products-page script the browser runs, and the listing
    \*     endpoint's response form for the session
    script, serverShape, clicked,
    \* --- static/js/products.js
    pj_currentProducts, pj_currentPage, pj_rows, pj_paginated, pj_pageInfo,
    pj_prevDisabled, pj_nextDisabled, pj_dom, pj_timeout, pj_pending,
    pj_lastRequest, pj_notification, pj_raised, pj_listening,
    \* --- unnamed/part_000
    p0_currentPage, currentFilters, p0_searchInput, p0_searchTimeout,
    p0_pending, p0_lastRequest, p0_table, p0_paginated, p0_data,
    p0_prevDisabled, p0_nextDisabled, p0_pageInfo, p0_message,
    \* --- static/js/dashboard.js, reports page: the consumers of the listing
    rp_call, rp_raised, rp_notification, rp_result,
    \* --- the product store behind the API, the request to it that is in
    \*     flight, and what the pages show of it besides the table
    db, nextId, clock, api_call, pj_modal, p0_alert,
    \* --- static/js/dashboard.js, dashboard page
    ds_call, ds_cards, ds_chart, ds_notification, ds_console,
    \* --- unnamed/part_001, InventoryAPI.request: the call in progress, the
    \*     fetches issued, what the call gave its caller, the console
    rq_pc, rq_fetched, rq_response, rq_outcome, rq_console,
    \* --- the debounced search input in time: the input's text, the timer
    \*     variable, the timers pending, the input events so far, the time
    \*     since the last one, the runs of the search handler
    tm_value, tm_timeout, tm_timers, tm_events, tm_quiet, tm_ran,
    \* --- whether the user declined the last confirm() dialog
    declined

statusVars == <<stock, statusClass, statusText, dashStatusText, statusBadge>>
listVars == <<store, filters, query, listing, listPc>>
sessionVars == <<script, serverShape, clicked>>
pjVars == <<pj_currentProducts, pj_currentPage, pj_rows, pj_paginated,
            pj_pageInfo, pj_prevDisabled, pj_nextDisabled, pj_dom, pj_timeout,
            pj_pending, pj_lastRequest, pj_notification, pj_raised,
            pj_listening>>
p0Vars == <<p0_currentPage, currentFilters, p0_searchInput, p0_searchTimeout,
            p0_pending, p0_lastRequest, p0_table, p0_paginated, p0_data,
            p0_prevDisabled, p0_nextDisabled, p0_pageInfo, p0_message>>
rpVars == <<rp_call, rp_raised, rp_notification, rp_result>>
storeVars == <<db, nextId, clock, api_call, pj_modal, p0_alert>>
dsVars == <<ds_call, ds_cards, ds_chart, ds_notification, ds_console>>
rqVars == <<rq_pc, rq_fetched, rq_response, rq_outcome, rq_console>>
tmVars == <<tm_value, tm_timeout, tm_timers, tm_events, tm_quiet, tm_ran>>
dlgVars == <<declined>>
vars == <<statusVars, listVars, sessionVars, pjVars, p0Vars, rpVars,
          storeVars, dsVars, rqVars, tmVars, dlgVars>>

\* =====================================================================
\* Stock status
\* =====================================================================

\* products.js getStatusClass with the boundary test written as <= 10
getStatusClass_le10(s) ==
    IF s = 0 THEN "out-of-stock"
    ELSE IF s <= 10 THEN "low-stock"
    ELSE "in-stock"

\* products.js: getStatusClass(stock)
getStatusClass(s) ==
    IF s = 0 THEN "out-of-stock"
    ELSE IF s < 10 THEN "low-stock"
    ELSE "in-stock"

\* products.js: getStatusText(stock)
getStatusText(s) ==
    IF s = 0 THEN "Out of Stock"
    ELSE IF s < 10 THEN "Low Stock"
    ELSE "In Stock"

\* dashboard.js: getStatusText(stock)
Dashboard_getStatusText(s) ==
    IF s = 0 THEN "Out of Stock"
    ELSE IF s < 10 THEN "Low Stock"
    ELSE "In Stock"

\* part_000: getStatusBadge(stockQuantity); the badge is the pair of the
\* span's class and its text
getStatusBadge(stockQuantity) ==
    IF stockQuantity = 0 THEN [class |-> "out-of-stock", text |-> "Out of Stock"]
    ELSE IF stockQuantity <= 10 THEN [class |-> "low-stock", text |-> "Low Stock"]
    ELSE [class |-> "in-stock", text |-> "In Stock"]

NoBadge == [class |-> "", text |-> ""]

\* =====================================================================
\* Text: strings are sequences of one-character strings
\* =====================================================================

\* characters a search text is typed from (upper and lower case, a digit)
SearchAlphabet == {"a", "A", "b", "1"}

\* String.prototype.toLowerCase, per character
LowerChar(c) == IF c = "A" THEN "a" ELSE IF c = "B" THEN "b" ELSE c

ToLower(s) == [i \in 1..Len(s) |-> LowerChar(s[i])]

\* String.prototype.includes: needle occurs in hay as a contiguous substring
Includes(hay, needle) ==
    \E i \in 0..(Len(hay) - Len(needle)) :
        SubSeq(hay, i + 1, i + Len(needle)) = needle

\* every text of at most n characters
Texts(n) == UNION {[1..k -> SearchAlphabet] : k \in 0..n}

\* =====================================================================
\* The product store and the listing endpoint
\* =====================================================================

Categories == {"Electronics", "Supplies", "Furniture", "Groceries"}
Statuses == {"in-stock", "low-stock", "out-of-stock"}

\* the seeded dataset A1, A2, A3 of the test scenario, and a fourth product
\* on the in-stock boundary
Catalogue ==
    <<[id |-> 1, sku |-> <<"A", "1">>, name |-> <<"a", "b">>,
       description |-> <<>>, stock_quantity |-> 0, category |-> "Electronics"],
      [id |-> 2, sku |-> <<"A", "2">>, name |-> <<"B", "a">>,
       description |-> <<"b", "1">>, stock_quantity |-> 5, category |-> "Supplies"],
      [id |-> 3, sku |-> <<"A", "3">>, name |-> <<"b">>,
       description |-> <<"A", "b">>, stock_quantity |-> 50, category |-> "Electronics"],
      [id |-> 4, sku |-> <<"b", "4">>, name |-> <<"1", "a">>,
       description |-> <<>>, stock_quantity |-> 10, category |-> "Furniture"]>>

ProductIds == DOMAIN Catalogue

\* the derived stock status of the data model's table
DerivedStatus(q) ==
    IF q = 0 THEN "out-of-stock"
    ELSE IF q >= 1 /\ q <= 9 THEN "low-stock"
    ELSE "in-stock"

\* the ids of a set in ascending order
RECURSIVE Ascending(_)
Ascending(S) ==
    IF S = {} THEN <<>>
    ELSE LET m == CHOOSE x \in S : \A y \in S : x <= y
         IN <<m>> \o Ascending(S \ {m})

\* GET /api/products: the products of the store that pass every filter the
\* query string carries with a non-empty value, ordered by id
ServerList(st, q) ==
    LET has(k) == k \in DOMAIN q
        pass(p) ==
            /\ (has("search") /\ q["search"] # <<>>) =>
                   \/ Includes(ToLower(p.name), ToLower(q["search"]))
                   \/ Includes(ToLower(p.sku), ToLower(q["search"]))
                   \/ Includes(ToLower(p.description), ToLower(q["search"]))
            /\ (has("category") /\ q["category"] # "") =>
                   p.category = q["category"]
            /\ (has("status") /\ q["status"] # "") =>
                   DerivedStatus(p.stock_quantity) = q["status"]
    IN Ascending({i \in st : pass(Catalogue[i])})

NoFilters == [category |-> "", search |-> <<>>, status |-> ""]

\* getProducts that forgets to forward the status filter
getProducts_noStatus(f) ==
    LET keys == {k \in {"category", "search"} :
                    IF k = "search" THEN f[k] # <<>> ELSE f[k] # ""}
    IN [k \in keys |-> f[k]]

\* InventoryAPI.getProducts: the query string it builds, as the map from
\* the parameters appended to their values (a parameter is appended only
\* when the filter value is truthy, i.e. a non-empty string)
getProducts(f) ==
    LET keys == {k \in {"category", "search", "status"} :
                    IF k = "search" THEN f[k] # <<>> ELSE f[k] # ""}
    IN [k \in keys |-> f[k]]

EmptyQuery == [k \in {} |-> ""]

\* =====================================================================
\* JavaScript values and helpers
\* =====================================================================

Num(n) == [t |-> "num", v |-> n, s |-> ""]
Str(x) == [t |-> "str", v |-> 0, s |-> x]
NaN == [t |-> "NaN", v |-> 0, s |-> ""]
Undefined == [t |-> "undefined", v |-> 0, s |-> ""]

\* x + k and x - k on a JavaScript number: undefined and NaN give NaN
JsAdd(x, k) == IF x.t = "num" THEN Num(x.v + k) ELSE NaN

\* Math.ceil(n / d) for n >= 0, d > 0
Ceil(n, d) == (n + d - 1) \div d

Min(a, b) == IF a < b THEN a ELSE b
Max(a, b) == IF a > b THEN a ELSE b

\* Array.prototype.slice(start, end)
JsSlice(arr, start, end) ==
    LET len == Len(arr)
        k == IF start < 0 THEN Max(len + start, 0) ELSE Min(start, len)
        final == IF end < 0 THEN Max(len + end, 0) ELSE Min(end, len)
    IN SubSeq(arr, k + 1, final)

\* the products 1..n in id order
Products(n) == [i \in 1..n |-> i]

\* String.prototype.trim on a text whose only whitespace character is " "
RECURSIVE TrimLeft(_)
TrimLeft(s) == IF s # <<>> /\ Head(s) = " " THEN TrimLeft(Tail(s)) ELSE s
RECURSIVE TrimRight(_)
TrimRight(s) ==
    IF s # <<>> /\ s[Len(s)] = " " THEN TrimRight(SubSeq(s, 1, Len(s) - 1)) ELSE s
Trim(s) == TrimRight(TrimLeft(s))

\* =====================================================================
\* The listing endpoint as the page scripts see it
\* =====================================================================

\* The response forms of GET /api/products: a bare array, or the paginated
\* envelope, whose page number travels as "page" (the interface section)
\* or as "current_page" (the pagination contract).  The form is a property
\* of the server's code path, fixed for a session.
Shapes == {"array", "page", "current_page"}

\* the paginated envelope for page p (a number >= 1) of n matches
Envelope(shape, p, n) ==
    LET pages == Ceil(n, per_page)
        products == JsSlice(Products(n), (p - 1) * per_page, p * per_page)
    IN IF shape = "page"
       THEN [products |-> products, total |-> n, page |-> p, pages |-> pages,
             has_prev |-> p > 1, has_next |-> p < pages]
       ELSE [products |-> products, total |-> n, current_page |-> p,
             pages |-> pages, has_prev |-> p > 1, has_next |-> p < pages]

\* data.<field> read from a response object: undefined when absent
JsGet(data, field) ==
    IF field \in DOMAIN data THEN Num(data[field]) ELSE Undefined

\* =====================================================================
\* static/js/products.js
\* =====================================================================

JsArray(items) == [kind |-> "array", items |-> items]
JsObject(items) == [kind |-> "object", items |-> items]

PjSearchTexts == {<<>>, <<"a">>, <<" ">>}
PjCategories == {"", "Electronics"}
PjStatuses == {"", "low-stock"}

\* renderProductsTable with the page's first index computed from
\* currentPage instead of currentPage - 1
pageProducts_offByOne(products, page) ==
    JsSlice(products, page * productsPerPage,
            page * productsPerPage + productsPerPage)

\* renderProductsTable showing the last page when currentPage is beyond it
pageProducts_lastPage(products, page) ==
    LET last == Max(1, Ceil(Len(products), productsPerPage))
        shown == Min(page, last)
    IN JsSlice(products, (shown - 1) * productsPerPage,
               shown * productsPerPage)

\* renderProductsTable: the rows of the current page,
\* products.slice(startIndex, endIndex)
pageProducts(products, page) ==
    LET startIndex == (page - 1) * productsPerPage
        endIndex == startIndex + productsPerPage
    IN JsSlice(products, startIndex, endIndex)

\* updatePagination with the Previous button disabled on every page
\* up to the second
prevDisabledFor_upTo2(page) == page <= 2

\* updatePagination: prevBtn.disabled = currentPage === 1
prevDisabledFor(page) == page = 1

\* updatePagination: nextBtn.disabled = currentPage === totalPages
nextDisabledFor(page, totalPages) == page = totalPages

\* updatePagination: totalPages = Math.ceil(totalProducts / productsPerPage)
totalPagesOf(totalProducts) == Ceil(totalProducts, productsPerPage)

\* getActiveFilters: the values of the two selects and of the search input
getActiveFilters(dom) == [category |-> dom.category, status |-> dom.status,
                          search |-> dom.search]

\* updatePagination(totalProducts), run with currentPage = page
Pj_updatePagination(page, totalProducts) ==
    /\ pj_pageInfo' = [page |-> page, total |-> totalPagesOf(totalProducts)]
    /\ pj_prevDisabled' = prevDisabledFor(page)
    /\ pj_nextDisabled' = nextDisabledFor(page, totalPagesOf(totalProducts))
    /\ pj_paginated' = TRUE

\* loadProducts up to its await: getProducts builds the query and the
\* request goes out
Pj_loadProducts(f, caller) ==
    /\ Len(pj_pending) < MaxPending
    /\ pj_lastRequest' = getProducts(f)
    /\ pj_pending' = Append(pj_pending, caller)

RemoveAt(seq, i) == SubSeq(seq, 1, i - 1) \o SubSeq(seq, i + 1, Len(seq))

NoClick == [btn |-> "none", from |-> Undefined]

\* the frame of a products.js step: the other script and the two
\* function-level developments stay as they are
PjFrame == UNCHANGED <<statusVars, listVars, script, serverShape, p0Vars, rpVars,
                       storeVars, dsVars, rqVars, tmVars,
                       dlgVars>>

\* changePage(page): set currentPage, render, update the pagination.  On a
\* currentProducts that is not an array, slice raises and nothing after
\* the assignment runs.
changePage(page) ==
    /\ pj_currentPage' = page
    /\ IF pj_currentProducts.kind = "array"
       THEN /\ pj_rows' = pageProducts(pj_currentProducts.items, page)
            /\ Pj_updatePagination(page, Len(pj_currentProducts.items))
            /\ UNCHANGED pj_raised
       ELSE /\ pj_raised' = "TypeError"
            /\ UNCHANGED <<pj_rows, pj_pageInfo, pj_prevDisabled,
                           pj_nextDisabled, pj_paginated>>
    /\ UNCHANGED <<pj_currentProducts, pj_dom, pj_timeout, pj_pending,
                   pj_lastRequest, pj_notification, pj_listening>>

\* click on the Next button: nextBtn.onclick = () => changePage(currentPage + 1)
PjNextClick ==
    /\ script = "products.js"
    /\ pj_paginated /\ ~pj_nextDisabled
    /\ pj_currentPage < MaxPage
    /\ clicked' = [btn |-> "next", from |-> Num(pj_pageInfo.page)]
    /\ changePage(pj_currentPage + 1)
    /\ PjFrame

\* click on the Previous button: prevBtn.onclick = () => changePage(currentPage - 1)
PjPrevClick ==
    /\ script = "products.js"
    /\ pj_paginated /\ ~pj_prevDisabled
    /\ clicked' = [btn |-> "prev", from |-> Num(pj_pageInfo.page)]
    /\ changePage(pj_currentPage - 1)
    /\ PjFrame

\* an input event on the search box: the debounced handler re-arms its timer
PjInput(text) ==
    /\ script = "products.js"
    /\ pj_listening
    /\ text # pj_dom.search
    /\ pj_dom' = [pj_dom EXCEPT !.search = text]
    /\ pj_timeout' = TRUE
    /\ UNCHANGED <<pj_currentProducts, pj_currentPage, pj_rows, pj_paginated,
                   pj_pageInfo, pj_prevDisabled, pj_nextDisabled, pj_pending,
                   pj_lastRequest, pj_notification, pj_raised, pj_listening,
                   clicked>>
    /\ PjFrame

\* the debounce timer fires: handleSearch(event)
handleSearch ==
    /\ script = "products.js"
    /\ pj_timeout
    /\ pj_timeout' = FALSE
    /\ LET searchTerm == Trim(pj_dom.search)
           f == [getActiveFilters(pj_dom) EXCEPT !.search = searchTerm]
       IN Pj_loadProducts(f, "search")
    /\ UNCHANGED <<pj_currentProducts, pj_currentPage, pj_rows, pj_paginated,
                   pj_pageInfo, pj_prevDisabled, pj_nextDisabled, pj_dom,
                   pj_notification, pj_raised, pj_listening, clicked>>
    /\ PjFrame

\* a change event on the category or the status select: handleFilterChange
handleFilterChange(field, value) ==
    /\ script = "products.js"
    /\ pj_listening
    /\ value # pj_dom[field]
    /\ pj_dom' = [pj_dom EXCEPT ![field] = value]
    /\ Pj_loadProducts(getActiveFilters(pj_dom'), "filter")
    /\ UNCHANGED <<pj_currentProducts, pj_currentPage, pj_rows, pj_paginated,
                   pj_pageInfo, pj_prevDisabled, pj_nextDisabled, pj_timeout,
                   pj_notification, pj_raised, pj_listening, clicked>>
    /\ PjFrame

\* what window.api.getProducts resolves to for n matching products
PjResolved(n) ==
    IF serverShape = "array" THEN JsArray(Products(n))
    ELSE JsObject(JsSlice(Products(n), 0, per_page))

\* the listing request i fails (non-OK status or network error):
\* InventoryAPI.request throws, loadProducts catches and notifies
PjRequestFails(i) ==
    /\ script = "products.js"
    /\ i \in 1..Len(pj_pending)
    /\ pj_pending' = RemoveAt(pj_pending, i)
    /\ pj_listening' = (pj_listening \/ pj_pending[i] = "init")
    /\ pj_notification' = "Error loading products"
    /\ pj_raised' = "http"
    /\ UNCHANGED <<pj_currentProducts, pj_currentPage, pj_rows, pj_paginated,
                   pj_pageInfo, pj_prevDisabled, pj_nextDisabled, pj_dom,
                   pj_timeout, pj_lastRequest, clicked>>
    /\ PjFrame

\* the listing request i is answered 200 with n products: loadProducts
\* resumes after its await (currentProducts = products; render; paginate);
\* after the first load initializeProductsPage installs the listeners
PjRequestSucceeds(i, n) ==
    /\ script = "products.js"
    /\ i \in 1..Len(pj_pending)
    /\ pj_pending' = RemoveAt(pj_pending, i)
    /\ pj_listening' = (pj_listening \/ pj_pending[i] = "init")
    /\ LET products == PjResolved(n)
       IN /\ pj_currentProducts' = products
          /\ IF products.kind = "array"
             THEN /\ pj_rows' = pageProducts(products.items, pj_currentPage)
                  /\ Pj_updatePagination(pj_currentPage, Len(products.items))
                  /\ pj_raised' = ""
                  /\ UNCHANGED pj_notification
             ELSE \* products.slice is not a function: caught by loadProducts
                  /\ pj_raised' = "TypeError"
                  /\ pj_notification' = "Error loading products"
                  /\ UNCHANGED <<pj_rows, pj_pageInfo, pj_prevDisabled,
                                 pj_nextDisabled, pj_paginated>>
    /\ UNCHANGED <<pj_currentPage, pj_dom, pj_timeout, pj_lastRequest, clicked>>
    /\ PjFrame

PjNext ==
    \/ PjNextClick
    \/ PjPrevClick
    \/ \E text \in PjSearchTexts : PjInput(text)
    \/ handleSearch
    \/ \E v \in PjCategories : handleFilterChange("category", v)
    \/ \E v \in PjStatuses : handleFilterChange("status", v)
    \/ \E i \in 1..MaxPending : PjRequestFails(i)
    \/ \E i \in 1..MaxPending, n \in 0..MaxProducts : PjRequestSucceeds(i, n)

\* products.js right after DOMContentLoaded: initializeProductsPage has
\* called loadProducts() and awaits it; the listeners are not installed yet
PjInit ==
    /\ pj_currentProducts = JsArray(<<>>)
    /\ pj_currentPage = 1
    /\ pj_rows = <<>>
    /\ pj_paginated = FALSE
    /\ pj_pageInfo = [page |-> 0, total |-> 0]
    /\ pj_prevDisabled \in BOOLEAN
    /\ pj_nextDisabled \in BOOLEAN
    /\ pj_dom = [category |-> "", status |-> "", search |-> <<>>]
    /\ pj_timeout = FALSE
    /\ pj_pending = <<"init">>
    /\ pj_lastRequest = getProducts(NoFilters)
    /\ pj_notification = ""
    /\ pj_raised = ""
    /\ pj_listening = FALSE

\* products.js not loaded
PjIdle ==
    /\ pj_currentProducts = JsArray(<<>>)
    /\ pj_currentPage = 1
    /\ pj_rows = <<>>
    /\ pj_paginated = FALSE
    /\ pj_pageInfo = [page |-> 0, total |-> 0]
    /\ pj_prevDisabled = FALSE
    /\ pj_nextDisabled = FALSE
    /\ pj_dom = [category |-> "", status |-> "", search |-> <<>>]
    /\ pj_timeout = FALSE
    /\ pj_pending = <<>>
    /\ pj_lastRequest = EmptyQuery
    /\ pj_notification = ""
    /\ pj_raised = ""
    /\ pj_listening = FALSE

\* =====================================================================
\* unnamed/part_000 (the inline products-page script)
\* =====================================================================

P0SearchTexts == {"", "a"}
P0Categories == {"", "Electronics"}
P0Statuses == {"", "low-stock"}

\* new URLSearchParams({page, per_page: 10, ...currentFilters}): the
\* entries in insertion order
P0Params(page, f) ==
    <<[key |-> "page", value |-> page],
      [key |-> "per_page", value |-> Num(per_page)],
      [key |-> "search", value |-> Str(f.search)],
      [key |-> "category", value |-> Str(f.category)],
      [key |-> "status", value |-> Str(f.status)]>>

\* !value on an entry's value, which URLSearchParams holds as a string:
\* only the empty string is falsy (the numbers stringify to "1", "NaN", ...)
ParamFalsy(value) == value.t = "str" /\ value.s = ""

\* URLSearchParams.delete(key)
DeleteKey(list, key) == SelectSeq(list, LAMBDA e : e.key # key)

\* for (const [key, value] of params.entries()) if (!value) params.delete(key)
\* The iterator walks the live list by index: after a delete the entries
\* behind it move up by one and the next index skips the first of them.
RECURSIVE RemoveEmptyFrom(_, _)
RemoveEmptyFrom(list, i) ==
    IF i > Len(list) THEN list
    ELSE IF ParamFalsy(list[i].value)
         THEN RemoveEmptyFrom(DeleteKey(list, list[i].key), i + 1)
         ELSE RemoveEmptyFrom(list, i + 1)

\* the value a query carries for a parameter: the empty string when the
\* parameter is absent
ParamOf(q, key) ==
    IF \E i \in 1..Len(q) : q[i].key = key
    THEN (CHOOSE e \in {q[i] : i \in 1..Len(q)} : e.key = key).value
    ELSE Str("")

\* the query parameters of the request loadProducts(page) sends
P0Query(page, f) == RemoveEmptyFrom(P0Params(page, f), 1)

\* loadProducts(page) up to its await fetch(...)
P0_loadProducts(page, f) ==
    /\ Len(p0_pending) < MaxPending
    /\ p0_lastRequest' = P0Query(page, f)
    /\ p0_pending' = Append(p0_pending, page)

NoData == [total |-> 0]

P0Frame == UNCHANGED <<statusVars, listVars, script, serverShape, pjVars, rpVars,
                       storeVars, dsVars, rqVars, tmVars,
                       dlgVars>>

P0Display == <<p0_table, p0_paginated, p0_data, p0_prevDisabled,
               p0_nextDisabled, p0_pageInfo, p0_message>>

\* the Next handler computing the page from the Previous handler's formula
nextPageOf_minus(data) == JsAdd(JsGet(data, "current_page"), -1)

\* nextBtn.onclick: currentPage = data.current_page + 1
nextPageOf(data) == JsAdd(JsGet(data, "current_page"), 1)

\* prevBtn.onclick: currentPage = data.current_page - 1
prevPageOf(data) == JsAdd(JsGet(data, "current_page"), -1)

\* updatePagination: pageInfo.textContent = `Page ${data.current_page} of ${data.pages}`
pageInfoOf(data) ==
    [page |-> JsGet(data, "current_page"), pages |-> data.pages]

\* updatePagination(data)
P0_updatePagination(data) ==
    /\ p0_prevDisabled' = ~data.has_prev
    /\ p0_nextDisabled' = ~data.has_next
    /\ p0_pageInfo' = pageInfoOf(data)
    /\ p0_data' = data
    /\ p0_paginated' = TRUE

\* displayProducts(products)
displayProducts(products) ==
    p0_table' = [rows |-> products, noProducts |-> Len(products) = 0]

\* click on Previous: if (data.has_prev) { currentPage = data.current_page - 1;
\* loadProducts(currentPage) }
P0PrevClick ==
    /\ script = "part_000"
    /\ p0_paginated /\ ~p0_prevDisabled
    /\ p0_data.has_prev
    /\ p0_currentPage' = prevPageOf(p0_data)
    /\ P0_loadProducts(p0_currentPage', currentFilters)
    /\ clicked' = [btn |-> "prev", from |-> p0_pageInfo.page]
    /\ UNCHANGED <<currentFilters, p0_searchInput, p0_searchTimeout, P0Display>>
    /\ P0Frame

\* click on Next: if (data.has_next) { currentPage = data.current_page + 1;
\* loadProducts(currentPage) }
P0NextClick ==
    /\ script = "part_000"
    /\ p0_paginated /\ ~p0_nextDisabled
    /\ p0_data.has_next
    /\ p0_currentPage' = nextPageOf(p0_data)
    /\ P0_loadProducts(p0_currentPage', currentFilters)
    /\ clicked' = [btn |-> "next", from |-> p0_pageInfo.page]
    /\ UNCHANGED <<currentFilters, p0_searchInput, p0_searchTimeout, P0Display>>
    /\ P0Frame

\* a filter handler's tail that loads the page shown instead of page 1
P0_resetAndLoad_keepPage(f) ==
    /\ currentFilters' = f
    /\ P0_loadProducts(p0_currentPage, f)
    /\ clicked' = NoClick
    /\ UNCHANGED <<p0_currentPage, P0Display>>
    /\ P0Frame

\* a filter handler's tail: currentPage = 1; loadProducts(currentPage)
P0_resetAndLoad(f) ==
    /\ currentFilters' = f
    /\ p0_currentPage' = Num(1)
    /\ P0_loadProducts(Num(1), f)
    /\ clicked' = NoClick
    /\ UNCHANGED P0Display
    /\ P0Frame

\* an input event on the search box: clearTimeout; setTimeout(..., 500)
P0Input(text) ==
    /\ script = "part_000"
    /\ text # p0_searchInput
    /\ p0_searchInput' = text
    /\ p0_searchTimeout' = TRUE
    /\ UNCHANGED <<p0_currentPage, currentFilters, p0_pending, p0_lastRequest,
                   P0Display, clicked>>
    /\ P0Frame

\* the search timer fires: currentFilters.search = e.target.value
P0SearchTimerFires ==
    /\ script = "part_000"
    /\ p0_searchTimeout
    /\ p0_searchTimeout' = FALSE
    /\ P0_resetAndLoad([currentFilters EXCEPT !.search = p0_searchInput])
    /\ UNCHANGED p0_searchInput

\* click on the search button
P0SearchClick ==
    /\ script = "part_000"
    /\ P0_resetAndLoad([currentFilters EXCEPT !.search = p0_searchInput])
    /\ UNCHANGED <<p0_searchInput, p0_searchTimeout>>

\* change of the category select
P0CategoryChange(value) ==
    /\ script = "part_000"
    /\ value # currentFilters.category
    /\ P0_resetAndLoad([currentFilters EXCEPT !.category = value])
    /\ UNCHANGED <<p0_searchInput, p0_searchTimeout>>

\* change of the status select
P0StatusChange(value) ==
    /\ script = "part_000"
    /\ value # currentFilters.status
    /\ P0_resetAndLoad([currentFilters EXCEPT !.status = value])
    /\ UNCHANGED <<p0_searchInput, p0_searchTimeout>>

\* request i fails (network error, non-OK status, or a page parameter the
\* server rejects): loadProducts catches and shows the error message
P0RequestFails(i) ==
    /\ script = "part_000"
    /\ i \in 1..Len(p0_pending)
    /\ p0_pending' = RemoveAt(p0_pending, i)
    /\ p0_message' = "Failed to load products. Please try again."
    /\ UNCHANGED <<p0_currentPage, currentFilters, p0_searchInput,
                   p0_searchTimeout, p0_lastRequest, p0_table, p0_paginated,
                   p0_data, p0_prevDisabled, p0_nextDisabled, p0_pageInfo,
                   clicked>>
    /\ P0Frame

\* request i is answered 200 for n matching products: loadProducts resumes
\* after its await (displayProducts(data.products || data); updatePagination
\* when data.total is defined)
P0RequestSucceeds(i, n) ==
    /\ script = "part_000"
    /\ i \in 1..Len(p0_pending)
    /\ p0_pending[i].t = "num" /\ p0_pending[i].v >= 1
    /\ p0_pending' = RemoveAt(p0_pending, i)
    /\ IF serverShape = "array"
       THEN /\ displayProducts(Products(n))
            /\ UNCHANGED <<p0_paginated, p0_data, p0_prevDisabled,
                           p0_nextDisabled, p0_pageInfo>>
       ELSE LET data == Envelope(serverShape, p0_pending[i].v, n)
            IN /\ displayProducts(data.products)
               /\ P0_updatePagination(data)
    /\ UNCHANGED <<p0_currentPage, currentFilters, p0_searchInput,
                   p0_searchTimeout, p0_lastRequest, p0_message, clicked>>
    /\ P0Frame

P0Next ==
    \/ P0PrevClick
    \/ P0NextClick
    \/ \E text \in P0SearchTexts : P0Input(text)
    \/ P0SearchTimerFires
    \/ P0SearchClick
    \/ \E v \in P0Categories : P0CategoryChange(v)
    \/ \E v \in P0Statuses : P0StatusChange(v)
    \/ \E i \in 1..MaxPending : P0RequestFails(i)
    \/ \E i \in 1..MaxPending, n \in 0..MaxProducts : P0RequestSucceeds(i, n)

\* part_000 right after DOMContentLoaded: loadProducts() is in flight
\* (not awaited) and setupSearch has installed the handlers
P0Init ==
    /\ p0_currentPage = Num(1)
    /\ currentFilters = [search |-> "", category |-> "", status |-> ""]
    /\ p0_searchInput = ""
    /\ p0_searchTimeout = FALSE
    /\ p0_pending = <<Num(1)>>
    /\ p0_lastRequest = P0Query(Num(1), [search |-> "", category |-> "", status |-> ""])
    /\ p0_table = [rows |-> <<>>, noProducts |-> FALSE]
    /\ p0_paginated = FALSE
    /\ p0_data = NoData
    /\ p0_prevDisabled \in BOOLEAN
    /\ p0_nextDisabled \in BOOLEAN
    /\ p0_pageInfo = [page |-> Undefined, pages |-> 0]
    /\ p0_message = ""

\* part_000 not loaded
P0Idle ==
    /\ p0_currentPage = Num(1)
    /\ currentFilters = [search |-> "", category |-> "", status |-> ""]
    /\ p0_searchInput = ""
    /\ p0_searchTimeout = FALSE
    /\ p0_pending = <<>>
    /\ p0_lastRequest = <<>>
    /\ p0_table = [rows |-> <<>>, noProducts |-> FALSE]
    /\ p0_paginated = FALSE
    /\ p0_data = NoData
    /\ p0_prevDisabled = FALSE
    /\ p0_nextDisabled = FALSE
    /\ p0_pageInfo = [page |-> Undefined, pages |-> 0]
    /\ p0_message = ""

\* =====================================================================
\* static/js/dashboard.js: the reports page's consumers of the listing
\* =====================================================================

RpFrame == UNCHANGED <<statusVars, listVars, sessionVars, pjVars, p0Vars,
                       storeVars, dsVars, rqVars, tmVars,
                       dlgVars>>

\* loadSummaryStats reaches `await window.api.getProducts()` (page load or
\* a report filter change), or a click on Export runs exportData up to it
RpCall(fn) ==
    /\ script = "dashboard.js"
    /\ rp_call = ""
    /\ rp_call' = fn
    /\ UNCHANGED <<rp_raised, rp_notification, rp_result>>
    /\ RpFrame

\* getProducts rejects: exportData notifies, loadSummaryStats only logs
RpRequestFails ==
    /\ script = "dashboard.js"
    /\ rp_call # ""
    /\ rp_call' = ""
    /\ rp_raised' = "http"
    /\ rp_notification' =
           IF rp_call = "exportData" THEN "Error exporting data"
           ELSE rp_notification
    /\ rp_result' = [fn |-> rp_call, rows |-> -1]
    /\ RpFrame

\* getProducts resolves for n products: products.reduce (loadSummaryStats)
\* or products.map (exportData) runs over the resolved value, which is the
\* response body as it came
RpRequestSucceeds(n) ==
    /\ script = "dashboard.js"
    /\ rp_call # ""
    /\ rp_call' = ""
    /\ IF serverShape = "array"
       THEN /\ rp_raised' = ""
            /\ rp_result' = [fn |-> rp_call, rows |-> n]
            /\ rp_notification' =
                   IF rp_call = "exportData" THEN "Data exported successfully!"
                   ELSE rp_notification
       ELSE \* products.reduce / products.map is not a function
            /\ rp_raised' = "TypeError"
            /\ rp_result' = [fn |-> rp_call, rows |-> -1]
            /\ rp_notification' =
                   IF rp_call = "exportData" THEN "Error exporting data"
                   ELSE rp_notification
    /\ RpFrame

RpNext ==
    \/ RpCall("loadSummaryStats")
    \/ RpCall("exportData")
    \/ RpRequestFails
    \/ \E n \in 0..MaxProducts : RpRequestSucceeds(n)

\* the reports page after DOMContentLoaded: loadReportData has reached
\* loadSummaryStats' listing call
RpInit ==
    /\ rp_call = "loadSummaryStats" /\ rp_raised = ""
    /\ rp_notification = "" /\ rp_result = [fn |-> "", rows |-> -1]

RpIdle ==
    /\ rp_call = "" /\ rp_raised = ""
    /\ rp_notification = "" /\ rp_result = [fn |-> "", rows |-> -1]

\* =====================================================================
\* The product store behind /api/products and /api/stats.  The server is
\* not among the sources: it follows the data model and the interface
\* descriptions.  A product is held with the fields the operations below
\* depend on.
\* =====================================================================

\* the seeded dataset: A1 stock 0 (Electronics), A2 stock 5 (Supplies),
\* A3 stock 50 (Electronics), all created at time 0
SeedStore ==
    {[id |-> 1, sku |-> "A1", category |-> "Electronics", stock_quantity |-> 0,
      created_at |-> 0, updated_at |-> 0],
     [id |-> 2, sku |-> "A2", category |-> "Supplies", stock_quantity |-> 5,
      created_at |-> 0, updated_at |-> 0],
     [id |-> 3, sku |-> "A3", category |-> "Electronics", stock_quantity |-> 50,
      created_at |-> 0, updated_at |-> 0]}

\* the store the products pages start from: A1 and A2 of the seed
PageSeed == {p \in SeedStore : p.sku \in {"A1", "A2"}}

\* a request body: product fields minus id and timestamps; a field the
\* body does not carry is "" (sku, category) or -1 (stock_quantity)
NoBody == [sku |-> "", category |-> "", stock_quantity |-> -1]

\* bodies carrying every field
FullBodies ==
    {[sku |-> "A1", category |-> "Supplies", stock_quantity |-> 5],
     [sku |-> "A4", category |-> "Furniture", stock_quantity |-> 50]}

\* bodies carrying one field
PartialBodies ==
    {[sku |-> "", category |-> "", stock_quantity |-> 0],
     [sku |-> "A2", category |-> "", stock_quantity |-> -1]}

Skus(st) == {p.sku : p \in st}
Ids(st) == {p.id : p \in st}
Find(st, id) == CHOOSE p \in st : p.id = id

\* a request the store refuses: nothing changes
Refused(status) ==
    [status |-> status, db |-> db, nextId |-> nextId, clock |-> clock]

\* POST /api/products: fails if a required field is absent or the sku
\* collides; otherwise the product gets the next id and both timestamps
ServerCreate(body) ==
    IF body.sku = "" \/ body.category = "" \/ body.stock_quantity < 0
    THEN Refused(400)
    ELSE IF body.sku \in Skus(db) THEN Refused(400)
    ELSE [status |-> 201,
          db |-> db \cup {[id |-> nextId, sku |-> body.sku,
                           category |-> body.category,
                           stock_quantity |-> body.stock_quantity,
                           created_at |-> clock + 1, updated_at |-> clock + 1]},
          nextId |-> nextId + 1, clock |-> clock + 1]

\* PUT /api/products/{id} leaving updated_at as it was
ServerUpdate_staleStamp(id, body) ==
    IF id \notin Ids(db) THEN Refused(404)
    ELSE LET old == Find(db, id)
         IN [status |-> 200,
             db |-> (db \ {old}) \cup
                    {[old EXCEPT !.stock_quantity =
                          IF body.stock_quantity >= 0 THEN body.stock_quantity
                          ELSE @]},
             nextId |-> nextId, clock |-> clock + 1]

\* PUT /api/products/{id}: the fields the body carries replace the
\* product's, updated_at is refreshed; not-found for an unknown id, and a
\* sku that another product holds fails the write
ServerUpdate(id, body) ==
    IF id \notin Ids(db) THEN Refused(404)
    ELSE IF body.sku # "" /\ \E p \in db : p.id # id /\ p.sku = body.sku
    THEN Refused(400)
    ELSE LET old == Find(db, id)
             new == [id |-> old.id,
                     sku |-> IF body.sku # "" THEN body.sku ELSE old.sku,
                     category |-> IF body.category # "" THEN body.category
                                  ELSE old.category,
                     stock_quantity |->
                         IF body.stock_quantity >= 0 THEN body.stock_quantity
                         ELSE old.stock_quantity,
                     created_at |-> old.created_at,
                     updated_at |-> clock + 1]
         IN [status |-> 200, db |-> (db \ {old}) \cup {new},
             nextId |-> nextId, clock |-> clock + 1]

\* DELETE /api/products/{id}: hard delete
ServerDelete(id) ==
    IF id \notin Ids(db) THEN Refused(404)
    ELSE [status |-> 200, db |-> db \ {Find(db, id)},
          nextId |-> nextId, clock |-> clock]

\* GET /api/products/{id}
ServerGet(id) == IF id \in Ids(db) THEN Refused(200) ELSE Refused(404)

\* the request in flight to one of the four endpoints above
NoCall == [fn |-> "", id |-> 0, body |-> NoBody]

\* the server's handling of a request
Serve(call) ==
    CASE call.fn = "createProduct" -> ServerCreate(call.body)
      [] call.fn = "updateProduct" -> ServerUpdate(call.id, call.body)
      [] call.fn = "deleteProduct" -> ServerDelete(call.id)
      [] call.fn = "getProduct" -> ServerGet(call.id)

\* a response status the fetch API calls ok
Ok(status) == status >= 200 /\ status <= 299

\* GET /api/products without filters: every product, ordered by id
StoreList(st) == Ascending(Ids(st))

\* the rows of the store in id order
RECURSIVE Rows(_)
Rows(st) ==
    IF st = {} THEN <<>>
    ELSE LET first == CHOOSE p \in st : \A q \in st : p.id <= q.id
         IN <<first>> \o Rows(st \ {first})

NoStats ==
    [total_products |-> 0, low_stock_items |-> 0, out_of_stock |-> 0,
     categories |-> <<>>]

\* one more product counted into the statistics
Count(acc, p) ==
    [total_products |-> acc.total_products + 1,
     out_of_stock |-> acc.out_of_stock +
                      (IF p.stock_quantity = 0 THEN 1 ELSE 0),
     low_stock_items |-> acc.low_stock_items +
                         (IF p.stock_quantity >= 1 /\ p.stock_quantity <= 9
                          THEN 1 ELSE 0),
     categories |->
         IF p.category \in DOMAIN acc.categories
         THEN [acc.categories EXCEPT ![p.category] = @ + 1]
         ELSE [c \in DOMAIN acc.categories \cup {p.category} |->
                  IF c = p.category THEN 1 ELSE acc.categories[c]]]

RECURSIVE Scan(_, _)
Scan(rows, acc) ==
    IF rows = <<>> THEN acc ELSE Scan(Tail(rows), Count(acc, Head(rows)))

\* GET /api/stats: a full scan of the store on each request
ServerStats(st) == Scan(Rows(st), NoStats)

\* =====================================================================
\* static/js/products.js against the store: edit, delete, add and save
\* =====================================================================

NoModal == [open |-> FALSE, productId |-> 0]

PjTable == <<pj_currentProducts, pj_currentPage, pj_rows, pj_paginated,
             pj_pageInfo, pj_prevDisabled, pj_nextDisabled>>
PjControls == <<pj_dom, pj_timeout, pj_listening, clicked>>
PjStoreRest == UNCHANGED <<statusVars, listVars, script, serverShape, p0Vars,
                           rpVars, dsVars, rqVars, tmVars, p0_alert>>
PjStoreFrame == PjStoreRest /\ UNCHANGED dlgVars

\* the store after the server has handled a request with result r
Served(r) == db' = r.db /\ nextId' = r.nextId /\ clock' = r.clock

\* what window.api.getProducts resolves to against the store
PjResolvedFrom(st) ==
    IF serverShape = "array" THEN JsArray(StoreList(st))
    ELSE JsObject(JsSlice(StoreList(st), 0, per_page))

\* the listing request i is answered 200 from the store: loadProducts
\* resumes after its await
PjListingAnswered(i) ==
    /\ script = "products.js"
    /\ i \in 1..Len(pj_pending)
    /\ pj_pending' = RemoveAt(pj_pending, i)
    /\ pj_listening' = (pj_listening \/ pj_pending[i] = "init")
    /\ LET products == PjResolvedFrom(db)
       IN /\ pj_currentProducts' = products
          /\ IF products.kind = "array"
             THEN /\ pj_rows' = pageProducts(products.items, pj_currentPage)
                  /\ Pj_updatePagination(pj_currentPage, Len(products.items))
                  /\ pj_raised' = ""
                  /\ UNCHANGED pj_notification
             ELSE /\ pj_raised' = "TypeError"
                  /\ pj_notification' = "Error loading products"
                  /\ UNCHANGED <<pj_rows, pj_pageInfo, pj_prevDisabled,
                                 pj_nextDisabled, pj_paginated>>
    /\ UNCHANGED <<pj_currentPage, pj_dom, pj_timeout, pj_lastRequest, clicked>>
    /\ PjFrame

\* click on a row's Edit button: editProduct(productId) up to its await
editProduct(productId) ==
    /\ script = "products.js"
    /\ ~pj_modal.open /\ api_call = NoCall
    /\ \E k \in 1..Len(pj_rows) : pj_rows[k] = productId
    /\ api_call' = [fn |-> "getProduct", id |-> productId, body |-> NoBody]
    /\ UNCHANGED <<db, nextId, clock, pj_modal>>
    /\ UNCHANGED <<PjTable, PjControls, pj_pending, pj_lastRequest,
                   pj_notification, pj_raised>>
    /\ PjStoreFrame

\* editProduct after its await: showEditProductModal(product), or the
\* catch when request threw on a non-OK status
PjEditAnswered ==
    /\ script = "products.js"
    /\ api_call.fn = "getProduct"
    /\ api_call' = NoCall
    /\ LET r == Serve(api_call)
       IN /\ Served(r)
          /\ IF Ok(r.status)
             THEN /\ pj_modal' = [open |-> TRUE, productId |-> api_call.id]
                  /\ pj_raised' = ""
                  /\ UNCHANGED pj_notification
             ELSE /\ pj_notification' = "Error loading product details"
                  /\ pj_raised' = "http"
                  /\ UNCHANGED pj_modal
    /\ UNCHANGED <<PjTable, PjControls, pj_pending, pj_lastRequest>>
    /\ PjStoreFrame

\* deleteProduct that sends the DELETE whatever the user answers
deleteProduct_unconfirmed(productId, confirmed) ==
    /\ script = "products.js"
    /\ ~pj_modal.open
    /\ \E k \in 1..Len(pj_rows) : pj_rows[k] = productId
    /\ declined' = ~confirmed
    /\ api_call = NoCall
    /\ api_call' = [fn |-> "deleteProduct", id |-> productId, body |-> NoBody]
    /\ UNCHANGED <<db, nextId, clock, pj_modal>>
    /\ UNCHANGED <<PjTable, PjControls, pj_pending, pj_lastRequest,
                   pj_notification, pj_raised>>
    /\ PjStoreRest

\* click on a row's Delete button: deleteProduct(productId) up to its
\* await, confirmed being the user's answer to confirm(); a declined
\* dialog returns at once
deleteProduct(productId, confirmed) ==
    /\ script = "products.js"
    /\ ~pj_modal.open
    /\ \E k \in 1..Len(pj_rows) : pj_rows[k] = productId
    /\ declined' = ~confirmed
    /\ IF confirmed
       THEN /\ api_call = NoCall
            /\ api_call' = [fn |-> "deleteProduct", id |-> productId,
                            body |-> NoBody]
       ELSE UNCHANGED api_call
    /\ UNCHANGED <<db, nextId, clock, pj_modal>>
    /\ UNCHANGED <<PjTable, PjControls, pj_pending, pj_lastRequest,
                   pj_notification, pj_raised>>
    /\ PjStoreRest

\* deleteProduct without the reload after a successful delete
PjDeleteAnswered_noReload ==
    /\ script = "products.js"
    /\ api_call.fn = "deleteProduct"
    /\ api_call' = NoCall
    /\ LET r == Serve(api_call)
       IN /\ Served(r)
          /\ IF Ok(r.status)
             THEN /\ pj_notification' = "Product deleted successfully"
                  /\ pj_raised' = ""
             ELSE /\ pj_notification' = "Error deleting product"
                  /\ pj_raised' = "http"
    /\ UNCHANGED <<PjTable, PjControls, pj_modal, pj_pending, pj_lastRequest>>
    /\ PjStoreFrame

\* deleteProduct after its await: the success notification and the reload
\* loadProducts(getActiveFilters()), or the catch
PjDeleteAnswered ==
    /\ script = "products.js"
    /\ api_call.fn = "deleteProduct"
    /\ api_call' = NoCall
    /\ LET r == Serve(api_call)
       IN /\ Served(r)
          /\ IF Ok(r.status)
             THEN /\ pj_notification' = "Product deleted successfully"
                  /\ Pj_loadProducts(getActiveFilters(pj_dom), "delete")
                  /\ pj_raised' = ""
             ELSE /\ pj_notification' = "Error deleting product"
                  /\ pj_raised' = "http"
                  /\ UNCHANGED <<pj_pending, pj_lastRequest>>
    /\ UNCHANGED <<PjTable, PjControls, pj_modal>>
    /\ PjStoreFrame

\* click on the Add Product button: showAddProductModal
showAddProductModal ==
    /\ script = "products.js"
    /\ pj_listening /\ ~pj_modal.open
    /\ api_call = NoCall
    /\ pj_modal' = [open |-> TRUE, productId |-> 0]
    /\ UNCHANGED <<db, nextId, clock, api_call>>
    /\ UNCHANGED <<PjTable, PjControls, pj_pending, pj_lastRequest,
                   pj_notification, pj_raised>>
    /\ PjStoreFrame

\* click on the modal's Cancel or close button: closeModal
closeModal ==
    /\ script = "products.js"
    /\ pj_modal.open
    /\ pj_modal' = NoModal
    /\ UNCHANGED <<db, nextId, clock, api_call>>
    /\ UNCHANGED <<PjTable, PjControls, pj_pending, pj_lastRequest,
                   pj_notification, pj_raised>>
    /\ PjStoreFrame

\* handleProductSubmit reporting success before the write is answered
submitNotification_early(fn, status) ==
    IF fn = "updateProduct" THEN "Product updated successfully"
    ELSE "Product added successfully"

\* handleProductSubmit: the notification after the write is answered with
\* the given status (request throws on a non-OK status)
submitNotification(fn, status) ==
    IF ~Ok(status) THEN "Error saving product"
    ELSE IF fn = "updateProduct" THEN "Product updated successfully"
    ELSE "Product added successfully"

\* handleProductSubmit that creates a product whatever the form was
\* opened for
handleProductSubmit_alwaysCreate(productData) ==
    /\ script = "products.js"
    /\ pj_modal.open /\ api_call = NoCall
    /\ clock < MaxClock
    /\ api_call' = [fn |-> "createProduct", id |-> 0, body |-> productData]
    /\ UNCHANGED <<db, nextId, clock, pj_modal>>
    /\ UNCHANGED <<PjTable, PjControls, pj_pending, pj_lastRequest,
                   pj_notification, pj_raised>>
    /\ PjStoreFrame

\* the form is submitted: handleProductSubmit(event, productId) up to its
\* await; the form data carries every field
handleProductSubmit(productData) ==
    /\ script = "products.js"
    /\ pj_modal.open /\ api_call = NoCall
    /\ clock < MaxClock
    /\ api_call' = IF pj_modal.productId # 0
                   THEN [fn |-> "updateProduct", id |-> pj_modal.productId,
                         body |-> productData]
                   ELSE [fn |-> "createProduct", id |-> 0,
                         body |-> productData]
    /\ UNCHANGED <<db, nextId, clock, pj_modal>>
    /\ UNCHANGED <<PjTable, PjControls, pj_pending, pj_lastRequest,
                   pj_notification, pj_raised>>
    /\ PjStoreFrame

\* handleProductSubmit after its await: the notification, closeModal and
\* the reload, or the catch
PjSubmitAnswered ==
    /\ script = "products.js"
    /\ api_call.fn \in {"createProduct", "updateProduct"}
    /\ api_call' = NoCall
    /\ LET r == Serve(api_call)
       IN /\ Served(r)
          /\ pj_notification' = submitNotification(api_call.fn, r.status)
          /\ IF Ok(r.status)
             THEN /\ pj_modal' = NoModal
                  /\ Pj_loadProducts(getActiveFilters(pj_dom), "save")
                  /\ pj_raised' = ""
             ELSE /\ pj_raised' = "http"
                  /\ UNCHANGED <<pj_modal, pj_pending, pj_lastRequest>>
    /\ UNCHANGED <<PjTable, PjControls>>
    /\ PjStoreFrame

\* the request in flight never reaches the store (network error): fetch
\* rejects, InventoryAPI.request rethrows and the handler's catch runs
PjCallFails ==
    /\ script = "products.js"
    /\ api_call # NoCall
    /\ api_call' = NoCall
    /\ pj_notification' =
           IF api_call.fn = "getProduct" THEN "Error loading product details"
           ELSE IF api_call.fn = "deleteProduct" THEN "Error deleting product"
           ELSE "Error saving product"
    /\ pj_raised' = "network"
    /\ UNCHANGED <<db, nextId, clock, pj_modal>>
    /\ UNCHANGED <<PjTable, PjControls, pj_pending, pj_lastRequest>>
    /\ PjStoreFrame

PjStoreNext ==
    \/ \E i \in 1..MaxPending : PjListingAnswered(i)
    \/ \E i \in 1..MaxPending : PjRequestFails(i)
    \/ \E id \in 1..(nextId - 1) : editProduct(id)
    \/ PjEditAnswered
    \/ \E id \in 1..(nextId - 1), confirmed \in BOOLEAN :
          deleteProduct(id, confirmed)
    \/ PjDeleteAnswered
    \/ showAddProductModal
    \/ closeModal
    \/ \E productData \in FullBodies : handleProductSubmit(productData)
    \/ PjSubmitAnswered
    \/ PjCallFails

\* =====================================================================
\* unnamed/part_000 against the store: edit and delete
\* =====================================================================

NoAlert == [text |-> "", productId |-> 0]

P0Controls == <<p0_currentPage, currentFilters, p0_searchInput,
                p0_searchTimeout, clicked>>
P0StoreRest == UNCHANGED <<statusVars, listVars, script, serverShape, pjVars,
                           rpVars, dsVars, rqVars, tmVars, pj_modal>>
P0StoreFrame == P0StoreRest /\ UNCHANGED dlgVars

\* the paginated envelope for page p of a list
EnvelopeOf(shape, p, list) ==
    LET pages == Ceil(Len(list), per_page)
        products == JsSlice(list, (p - 1) * per_page, p * per_page)
    IN IF shape = "page"
       THEN [products |-> products, total |-> Len(list), page |-> p,
             pages |-> pages, has_prev |-> p > 1, has_next |-> p < pages]
       ELSE [products |-> products, total |-> Len(list), current_page |-> p,
             pages |-> pages, has_prev |-> p > 1, has_next |-> p < pages]

\* request i is answered 200 from the store: loadProducts resumes after
\* its await
P0ListingAnswered(i) ==
    /\ script = "part_000"
    /\ i \in 1..Len(p0_pending)
    /\ p0_pending[i].t = "num" /\ p0_pending[i].v >= 1
    /\ p0_pending' = RemoveAt(p0_pending, i)
    /\ IF serverShape = "array"
       THEN /\ displayProducts(StoreList(db))
            /\ UNCHANGED <<p0_paginated, p0_data, p0_prevDisabled,
                           p0_nextDisabled, p0_pageInfo>>
       ELSE LET data == EnvelopeOf(serverShape, p0_pending[i].v, StoreList(db))
            IN /\ displayProducts(data.products)
               /\ P0_updatePagination(data)
    /\ UNCHANGED <<p0_currentPage, currentFilters, p0_searchInput,
                   p0_searchTimeout, p0_lastRequest, p0_message, clicked>>
    /\ P0Frame

\* click on a row's Edit button: editProduct(productId) up to its await
P0_editProduct(productId) ==
    /\ script = "part_000"
    /\ api_call = NoCall
    /\ \E k \in 1..Len(p0_table.rows) : p0_table.rows[k] = productId
    /\ api_call' = [fn |-> "getProduct", id |-> productId, body |-> NoBody]
    /\ UNCHANGED <<db, nextId, clock, p0_alert>>
    /\ UNCHANGED <<P0Controls, P0Display, p0_pending, p0_lastRequest>>
    /\ P0StoreFrame

\* editProduct after its await fetch: response.json() is read whatever the
\* status, and the alert shows the fields of what was parsed.  A 404 comes
\* with a JSON body naming the error, or with a body that is not JSON, on
\* which response.json() throws.
P0EditAnswered(notFoundBody) ==
    /\ script = "part_000"
    /\ api_call.fn = "getProduct"
    /\ api_call' = NoCall
    /\ LET r == Serve(api_call)
       IN /\ Served(r)
          /\ IF Ok(r.status)
             THEN /\ p0_alert' = [text |-> "Editing product",
                                  productId |-> api_call.id]
                  /\ UNCHANGED p0_message
             ELSE IF notFoundBody = "json"
             THEN /\ p0_alert' = [text |-> "Editing product: undefined",
                                  productId |-> 0]
                  /\ UNCHANGED p0_message
             ELSE /\ p0_message' = "Failed to load product details."
                  /\ UNCHANGED p0_alert
    /\ UNCHANGED <<P0Controls, p0_table, p0_paginated, p0_data,
                   p0_prevDisabled, p0_nextDisabled, p0_pageInfo,
                   p0_pending, p0_lastRequest>>
    /\ P0StoreFrame

\* click on a row's Delete button: deleteProduct(productId) up to its
\* await fetch, confirmed being the user's answer to confirm(); a declined
\* dialog returns at once
P0_deleteProduct(productId, confirmed) ==
    /\ script = "part_000"
    /\ \E k \in 1..Len(p0_table.rows) : p0_table.rows[k] = productId
    /\ declined' = ~confirmed
    /\ IF confirmed
       THEN /\ api_call = NoCall
            /\ api_call' = [fn |-> "deleteProduct", id |-> productId,
                            body |-> NoBody]
       ELSE UNCHANGED api_call
    /\ UNCHANGED <<db, nextId, clock, p0_alert>>
    /\ UNCHANGED <<P0Controls, P0Display, p0_pending, p0_lastRequest>>
    /\ P0StoreRest

\* deleteProduct after its await fetch: on an OK status the success
\* message and loadProducts(currentPage), not awaited; otherwise the catch
P0DeleteAnswered ==
    /\ script = "part_000"
    /\ api_call.fn = "deleteProduct"
    /\ api_call' = NoCall
    /\ LET r == Serve(api_call)
       IN /\ Served(r)
          /\ IF Ok(r.status)
             THEN /\ p0_message' = "Product deleted successfully"
                  /\ P0_loadProducts(p0_currentPage, currentFilters)
             ELSE /\ p0_message' = "Failed to delete product. Please try again."
                  /\ UNCHANGED <<p0_pending, p0_lastRequest>>
    /\ UNCHANGED <<P0Controls, p0_table, p0_paginated, p0_data,
                   p0_prevDisabled, p0_nextDisabled, p0_pageInfo, p0_alert>>
    /\ P0StoreFrame

\* the request in flight fails before the store is touched: fetch
\* rejects and the handler's catch runs
P0CallFails ==
    /\ script = "part_000"
    /\ api_call # NoCall
    /\ api_call' = NoCall
    /\ p0_message' =
           IF api_call.fn = "getProduct" THEN "Failed to load product details."
           ELSE "Failed to delete product. Please try again."
    /\ UNCHANGED <<db, nextId, clock, p0_alert>>
    /\ UNCHANGED <<P0Controls, p0_table, p0_paginated, p0_data,
                   p0_prevDisabled, p0_nextDisabled, p0_pageInfo,
                   p0_pending, p0_lastRequest>>
    /\ P0StoreFrame

P0StoreNext ==
    \/ \E i \in 1..MaxPending : P0ListingAnswered(i)
    \/ \E i \in 1..MaxPending : P0RequestFails(i)
    \/ \E id \in 1..(nextId - 1) : P0_editProduct(id)
    \/ \E notFoundBody \in {"json", "html"} : P0EditAnswered(notFoundBody)
    \/ \E id \in 1..(nextId - 1), confirmed \in BOOLEAN :
          P0_deleteProduct(id, confirmed)
    \/ P0DeleteAnswered
    \/ P0CallFails

\* =====================================================================
\* static/js/dashboard.js, dashboard page: loadDashboardData runs
\* loadStatistics, loadRecentActivity and loadInventoryOverview one after
\* the other, each awaiting one request; ds_call names the function whose
\* request is in flight.  Another client writes to the store meanwhile.
\* =====================================================================

NoCards == [total |-> -1, low |-> -1, categories |-> -1, out |-> -1]

\* a || b on numbers
JsOr(a, b) == IF a = 0 THEN b ELSE a

\* loadStatistics with the low-stock card fed from out_of_stock
statCards_swapped(stats) ==
    [total |-> JsOr(stats.total_products, 0),
     low |-> JsOr(stats.out_of_stock, 0),
     categories |-> Cardinality(DOMAIN stats.categories),
     out |-> JsOr(stats.out_of_stock, 0)]

\* loadStatistics: the text of the four statistics cards
statCards(stats) ==
    [total |-> JsOr(stats.total_products, 0),
     low |-> JsOr(stats.low_stock_items, 0),
     categories |-> Cardinality(DOMAIN stats.categories),
     out |-> JsOr(stats.out_of_stock, 0)]

\* updateCategoryChart: one bar per category, labelled with its name (the
\* bars' heights are left out)
chartBars(categories) == DOMAIN categories

DsFrame == UNCHANGED <<statusVars, listVars, sessionVars, pjVars, p0Vars,
                       rpVars, rqVars, tmVars, dlgVars>>

\* setInterval(loadDashboardData, 30000) fires: loadDashboardData up to
\* the await in loadStatistics
DsRefresh ==
    /\ script = "dashboard"
    /\ ds_call = ""
    /\ ds_call' = "loadStatistics"
    /\ UNCHANGED <<ds_cards, ds_chart, ds_notification, ds_console, storeVars>>
    /\ DsFrame

\* the request of the function in flight is answered 200; the next
\* function of loadDashboardData runs up to its await
DsAnswered ==
    /\ script = "dashboard"
    /\ ds_call # ""
    /\ LET stats == ServerStats(db)
       IN CASE ds_call = "loadStatistics" ->
                 /\ ds_cards' = statCards(stats)
                 /\ ds_chart' = chartBars(stats.categories)
                 /\ ds_call' = "loadRecentActivity"
            [] ds_call = "loadRecentActivity" ->
                 /\ ds_call' = "loadInventoryOverview"
                 /\ UNCHANGED <<ds_cards, ds_chart>>
            [] ds_call = "loadInventoryOverview" ->
                 /\ ds_chart' = chartBars(stats.categories)
                 /\ ds_call' = ""
                 /\ UNCHANGED ds_cards
    /\ UNCHANGED <<ds_notification, ds_console, storeVars>>
    /\ DsFrame

\* the request of the function in flight fails: InventoryAPI.request
\* throws, the function's own catch logs to the console (ds_console is
\* the last line logged) and returns, and loadDashboardData, whose catch
\* nothing reaches, goes on with the next function
DsFails ==
    /\ script = "dashboard"
    /\ ds_call # ""
    /\ ds_call' = CASE ds_call = "loadStatistics" -> "loadRecentActivity"
                    [] ds_call = "loadRecentActivity" -> "loadInventoryOverview"
                    [] ds_call = "loadInventoryOverview" -> ""
    /\ ds_console' =
           CASE ds_call = "loadStatistics" -> "Error loading statistics:"
             [] ds_call = "loadRecentActivity" -> "Error loading recent activity:"
             [] ds_call = "loadInventoryOverview" ->
                    "Error loading inventory overview:"
    /\ UNCHANGED <<ds_cards, ds_chart, ds_notification, storeVars>>
    /\ DsFrame

\* another client's write is handled by the server
OtherClientWrites(call) ==
    /\ script = "dashboard"
    /\ call.fn \in {"createProduct", "updateProduct"} => clock < MaxClock
    /\ Served(Serve(call))
    /\ UNCHANGED <<api_call, pj_modal, p0_alert, dsVars>>
    /\ DsFrame

Writes ==
    {[fn |-> "createProduct", id |-> 0, body |-> b] :
        b \in FullBodies \cup PartialBodies}
    \cup {[fn |-> "updateProduct", id |-> i, body |-> b] :
             i \in 1..(nextId - 1), b \in FullBodies \cup PartialBodies}
    \cup {[fn |-> "deleteProduct", id |-> i, body |-> NoBody] :
             i \in 1..(nextId - 1)}

DsNext ==
    \/ DsRefresh
    \/ DsAnswered
    \/ DsFails
    \/ \E call \in Writes : OtherClientWrites(call)

\* the dashboard page right after DOMContentLoaded: loadDashboardData has
\* reached the await in loadStatistics
DsInit ==
    /\ ds_call = "loadStatistics" /\ ds_cards = NoCards
    /\ ds_chart = {} /\ ds_notification = "" /\ ds_console = ""

DsIdle ==
    /\ ds_call = "" /\ ds_cards = NoCards
    /\ ds_chart = {} /\ ds_notification = "" /\ ds_console = ""

\* no confirm dialog answered yet
DlgIdle == declined = FALSE

\* no store behind the page
StoreIdle ==
    /\ db = {} /\ nextId = 1 /\ clock = 0 /\ api_call = NoCall
    /\ pj_modal = NoModal /\ p0_alert = NoAlert

\* =====================================================================
\* unnamed/part_001: InventoryAPI.request and the methods built on it
\* =====================================================================

\* constructor: this.baseURL = '/api'
baseURL == "/api"

Endpoint(path, id, params) == [path |-> path, id |-> id, query |-> params]
DefaultOptions == [method |-> "GET", body |-> NoBody]

\* the bodies a response can carry, and what response.json() makes of each
JsonTexts == {"[]", "{\"id\":1}", "{\"error\":\"Not found\"}"}
ResponseTexts == JsonTexts \cup {"<!doctype html>"}
NoValue == [kind |-> "none", id |-> 0, error |-> ""]
JsonParse(text) ==
    CASE text = "[]" -> [kind |-> "array", id |-> 0, error |-> ""]
      [] text = "{\"id\":1}" -> [kind |-> "object", id |-> 1, error |-> ""]
      [] text = "{\"error\":\"Not found\"}" ->
             [kind |-> "object", id |-> 0, error |-> "Not found"]
      [] OTHER -> [kind |-> "SyntaxError", id |-> 0, error |-> ""]

\* what fetch settles with: a response of any status, its body JSON when
\* the status is OK, or a rejection when the network fails
HttpStatuses == {200, 201, 400, 404, 500}
NoResponse == [kind |-> "none", status |-> 0, text |-> ""]
NetworkFailure == [kind |-> "rejected", status |-> 0, text |-> ""]
Responses ==
    {[kind |-> "response", status |-> s, text |-> t] :
        s \in HttpStatuses, t \in ResponseTexts}
Settlements ==
    {r \in Responses : Ok(r.status) => r.text \in JsonTexts}
        \cup {NetworkFailure}

NoOutcome == [kind |-> "none", value |-> NoValue, error |-> "", status |-> 0]
Returned(value) == [NoOutcome EXCEPT !.kind = "returned", !.value = value]
Thrown(error, status) ==
    [NoOutcome EXCEPT !.kind = "thrown", !.error = error, !.status = status]

\* fetch(url, config) as request calls it
FetchOf(endpoint, options) ==
    [url |-> <<baseURL, endpoint>>,
     headers |-> "application/json",
     method |-> options.method,
     body |-> options.body]

RqFrame == UNCHANGED <<statusVars, listVars, sessionVars, pjVars, p0Vars,
                       rpVars, storeVars, dsVars, tmVars, dlgVars>>

\* request(endpoint, options) up to the await of the fetch
request(endpoint, options) ==
    /\ script = "part_001"
    /\ rq_pc \in {"idle", "done"}
    /\ rq_fetched' = <<FetchOf(endpoint, options)>>
    /\ rq_pc' = "fetch"
    /\ rq_response' = NoResponse
    /\ rq_outcome' = NoOutcome
    /\ UNCHANGED rq_console
    /\ RqFrame

Api_getProducts(f) ==
    request(Endpoint("/products", 0, getProducts(f)), DefaultOptions)
Api_getProduct(id) ==
    request(Endpoint("/products/", id, EmptyQuery), DefaultOptions)
Api_createProduct(productData) ==
    request(Endpoint("/products", 0, EmptyQuery),
            [method |-> "POST", body |-> productData])
Api_updateProduct(id, productData) ==
    request(Endpoint("/products/", id, EmptyQuery),
            [method |-> "PUT", body |-> productData])
Api_deleteProduct(id) ==
    request(Endpoint("/products/", id, EmptyQuery),
            [method |-> "DELETE", body |-> NoBody])
Api_getStats == request(Endpoint("/stats", 0, EmptyQuery), DefaultOptions)
Api_getLowStockProducts ==
    request(Endpoint("/products/low-stock", 0, EmptyQuery), DefaultOptions)
Api_getRecentActivity ==
    request(Endpoint("/activity", 0, EmptyQuery), DefaultOptions)

\* the request issuing its fetch again when the first one failed
requestSettles_retry(r) ==
    /\ script = "part_001"
    /\ rq_pc = "fetch"
    /\ rq_response' = r
    /\ IF r.kind = "response" /\ Ok(r.status)
       THEN /\ rq_outcome' = Returned(JsonParse(r.text))
            /\ rq_pc' = "done"
            /\ UNCHANGED <<rq_fetched, rq_console>>
       ELSE /\ Len(rq_fetched) = 1
            /\ rq_fetched' = Append(rq_fetched, rq_fetched[1])
            /\ UNCHANGED <<rq_pc, rq_outcome, rq_console>>
    /\ RqFrame

\* the fetch settles and request runs to its end: a rejection or a non-OK
\* status or a body that does not parse is thrown, caught, logged and
\* thrown again; otherwise the parsed body is returned
requestSettles(r) ==
    /\ script = "part_001"
    /\ rq_pc = "fetch"
    /\ rq_response' = r
    /\ rq_pc' = "done"
    /\ LET parsed == JsonParse(r.text)
           error ==
               IF r.kind = "rejected" THEN Thrown("TypeError", 0)
               ELSE IF ~Ok(r.status)
                    THEN Thrown("HTTP error! status: ", r.status)
               ELSE IF parsed.kind = "SyntaxError"
                    THEN Thrown("SyntaxError", 0)
               ELSE NoOutcome
       IN IF error # NoOutcome
          THEN /\ rq_outcome' = error
               /\ rq_console' = <<"API request failed:", error.error>>
          ELSE /\ rq_outcome' = Returned(parsed)
               /\ UNCHANGED rq_console
    /\ UNCHANGED rq_fetched
    /\ RqFrame

RqNext ==
    \/ \E f \in {NoFilters, [NoFilters EXCEPT !.category = "Electronics"]} :
          Api_getProducts(f)
    \/ \E id \in 1..2 : Api_getProduct(id)
    \/ \E productData \in FullBodies : Api_createProduct(productData)
    \/ \E id \in 1..2, productData \in PartialBodies :
          Api_updateProduct(id, productData)
    \/ \E id \in 1..2 : Api_deleteProduct(id)
    \/ Api_getStats
    \/ Api_getLowStockProducts
    \/ Api_getRecentActivity
    \/ \E r \in Settlements : requestSettles(r)

\* window.api = new InventoryAPI(): no call made yet
RqInit ==
    /\ rq_pc = "idle" /\ rq_fetched = <<>> /\ rq_response = NoResponse
    /\ rq_outcome = NoOutcome /\ rq_console = <<>>

RqIdle ==
    /\ rq_pc = "" /\ rq_fetched = <<>> /\ rq_response = NoResponse
    /\ rq_outcome = NoOutcome /\ rq_console = <<>>

\* =====================================================================
\* The debounced search input in time: debounce of products.js and the
\* input listener of setupSearch in part_000
\* =====================================================================

\* the wait of the script running: debounce(handleSearch, 300) in
\* products.js, setTimeout(..., 500) in part_000
waitOf(s) == IF s = "products.js" THEN searchDebounce ELSE searchTimeoutDelay

\* the browser's timers: a pending timer is its id and the time it has
\* been pending; clearTimeout of an id that is not pending does nothing
clearTimeout_noop(timers, id) == timers

clearTimeout(timers, id) == {t \in timers : t.id # id}

setTimeout(timers, id) == timers \cup {[id |-> id, elapsed |-> 0]}

Due(t) == t.elapsed >= waitOf(script)

TmFrame == UNCHANGED <<statusVars, listVars, sessionVars, pjVars, p0Vars,
                       rpVars, storeVars, dsVars, rqVars, dlgVars>>

\* an input event: the listener clears the timer it holds and sets a new
\* one (executedFunction of debounce, the listener of setupSearch)
TmArm(text) ==
    /\ Len(tm_events) < MaxEvents
    /\ tm_value' = text
    /\ tm_events' = Append(tm_events, text)
    /\ tm_timeout' = Len(tm_events')
    /\ tm_timers' = setTimeout(clearTimeout(tm_timers, tm_timeout), tm_timeout')
    /\ tm_quiet' = 0
    /\ UNCHANGED tm_ran
    /\ TmFrame

executedFunction(text) ==
    /\ script = "products.js"
    /\ TmArm(text)

P0SearchInputEvent(text) ==
    /\ script = "part_000"
    /\ TmArm(text)

\* a run of the search handler by the timer of the event-th input event:
\* the value it read from the input, the search it asked for, the input
\* events there were and the time since the last of them
Run(event, value, search) ==
    [event |-> event, value |-> value, search |-> search,
     events |-> Len(tm_events), quiet |-> tm_quiet]

\* a timer of debounce fires: later() clears the timer held and calls
\* handleSearch(event), which reads and trims the input's value
later(t) ==
    /\ script = "products.js"
    /\ t \in tm_timers /\ Due(t)
    /\ tm_timers' = clearTimeout(tm_timers \ {t}, tm_timeout)
    /\ tm_ran' = Append(tm_ran, Run(t.id, tm_value, Trim(tm_value)))
    /\ UNCHANGED <<tm_value, tm_timeout, tm_events, tm_quiet>>
    /\ TmFrame

\* a timer of setupSearch fires: currentFilters.search = e.target.value;
\* currentPage = 1; loadProducts(currentPage)
P0SearchTimeoutFires(t) ==
    /\ script = "part_000"
    /\ t \in tm_timers /\ Due(t)
    /\ tm_timers' = tm_timers \ {t}
    /\ tm_ran' = Append(tm_ran, Run(t.id, tm_value, tm_value))
    /\ UNCHANGED <<tm_value, tm_timeout, tm_events, tm_quiet>>
    /\ TmFrame

\* time passes by one unit; a timer that is due fires, or is cleared by
\* an input event, before time passes further
Tick ==
    /\ tm_events # <<>>
    /\ \A t \in tm_timers : ~Due(t)
    /\ tm_quiet < waitOf(script) + TimeUnit
    /\ tm_quiet' = tm_quiet + TimeUnit
    /\ tm_timers' = {[t EXCEPT !.elapsed = @ + TimeUnit] : t \in tm_timers}
    /\ UNCHANGED <<tm_value, tm_timeout, tm_events, tm_ran>>
    /\ TmFrame

TmNext ==
    \/ \E text \in PjSearchTexts : executedFunction(text)
    \/ \E text \in P0SearchTexts : P0SearchInputEvent(text)
    \/ \E t \in tm_timers : later(t)
    \/ \E t \in tm_timers : P0SearchTimeoutFires(t)
    \/ Tick

\* the page with its listener attached and nothing typed yet
TmInit ==
    /\ tm_value = (IF script = "products.js" THEN <<>> ELSE "")
    /\ tm_timeout = 0 /\ tm_timers = {} /\ tm_events = <<>>
    /\ tm_quiet = 0 /\ tm_ran = <<>>

TmIdle ==
    /\ tm_value = <<>> /\ tm_timeout = 0 /\ tm_timers = {}
    /\ tm_events = <<>> /\ tm_quiet = 0 /\ tm_ran = <<>>

\* =====================================================================
\* Listing requests that overlap: both products-page scripts in front of
\* the listing endpoint, each request in flight kept with its query
\* =====================================================================

\* products.js: loadProducts up to its await, the query kept with the
\* request in flight
OvPj_loadProducts(f) ==
    /\ Len(pj_pending) < MaxOverlap
    /\ pj_lastRequest' = getProducts(f)
    /\ pj_pending' = Append(pj_pending, getProducts(f))

\* products.js: a change event on a select, handleFilterChange
OvHandleFilterChange(field, value) ==
    /\ script = "products.js"
    /\ pj_listening
    /\ value # pj_dom[field]
    /\ pj_dom' = [pj_dom EXCEPT ![field] = value]
    /\ OvPj_loadProducts(getActiveFilters(pj_dom'))
    /\ UNCHANGED <<PjTable, pj_timeout, pj_notification, pj_raised,
                   pj_listening, clicked>>
    /\ PjFrame

\* products.js: the debounce timer fires, handleSearch(event)
OvHandleSearch ==
    /\ script = "products.js"
    /\ pj_timeout
    /\ pj_timeout' = FALSE
    /\ OvPj_loadProducts([getActiveFilters(pj_dom) EXCEPT
                             !.search = Trim(pj_dom.search)])
    /\ UNCHANGED <<PjTable, pj_dom, pj_notification, pj_raised,
                   pj_listening, clicked>>
    /\ PjFrame

\* what the table and the pagination controls of products.js show for a
\* loaded array, on the page currentPage
PjShown(items, page) ==
    [currentProducts |-> JsArray(items),
     rows |-> pageProducts(items, page),
     pageInfo |-> [page |-> page, total |-> totalPagesOf(Len(items))],
     prevDisabled |-> prevDisabledFor(page),
     nextDisabled |-> nextDisabledFor(page, totalPagesOf(Len(items)))]

\* products.js: the response to the request in flight i arrives and
\* loadProducts resumes: currentProducts = products; renderProductsTable;
\* updatePagination
OvPjAnswered(i) ==
    /\ script = "products.js"
    /\ i \in 1..Len(pj_pending)
    /\ pj_pending' = RemoveAt(pj_pending, i)
    /\ pj_listening' = TRUE
    /\ LET items == ServerList(ProductIds, pj_pending[i])
       IN /\ pj_currentProducts' = JsArray(items)
          /\ pj_rows' = pageProducts(items, pj_currentPage)
          /\ Pj_updatePagination(pj_currentPage, Len(items))
    /\ UNCHANGED <<pj_currentPage, pj_dom, pj_timeout, pj_lastRequest,
                   pj_notification, pj_raised, clicked>>
    /\ PjFrame

\* part_000: loadProducts(page) up to its await, the query kept with the
\* request in flight
OvP0_loadProducts(page, f) ==
    /\ Len(p0_pending) < MaxOverlap
    /\ p0_lastRequest' = P0Query(page, f)
    /\ p0_pending' = Append(p0_pending, P0Query(page, f))

\* part_000: a filter handler's tail
OvP0_resetAndLoad(f) ==
    /\ currentFilters' = f
    /\ p0_currentPage' = Num(1)
    /\ OvP0_loadProducts(Num(1), f)
    /\ clicked' = NoClick
    /\ UNCHANGED P0Display
    /\ P0Frame

\* part_000: the search timer fires
OvP0SearchTimerFires ==
    /\ script = "part_000"
    /\ p0_searchTimeout
    /\ p0_searchTimeout' = FALSE
    /\ OvP0_resetAndLoad([currentFilters EXCEPT !.search = p0_searchInput])
    /\ UNCHANGED p0_searchInput

\* part_000: click on the search button
OvP0SearchClick ==
    /\ script = "part_000"
    /\ OvP0_resetAndLoad([currentFilters EXCEPT !.search = p0_searchInput])
    /\ UNCHANGED <<p0_searchInput, p0_searchTimeout>>

\* part_000: change of the category or of the status select
OvP0SelectChange(field, value) ==
    /\ script = "part_000"
    /\ value # currentFilters[field]
    /\ OvP0_resetAndLoad([currentFilters EXCEPT ![field] = value])
    /\ UNCHANGED <<p0_searchInput, p0_searchTimeout>>

\* the text a search parameter carries, as the endpoint matches it
TextOf(s) == IF s = "" THEN <<>> ELSE <<s>>

\* the listing endpoint's answer to a query of part_000
P0Answer(q) ==
    EnvelopeOf("current_page", ParamOf(q, "page").v,
               ServerList(ProductIds,
                          [category |-> ParamOf(q, "category").s,
                           status |-> ParamOf(q, "status").s,
                           search |-> TextOf(ParamOf(q, "search").s)]))

\* part_000: the response to the request in flight i arrives and
\* loadProducts resumes: displayProducts; updatePagination
OvP0Answered(i) ==
    /\ script = "part_000"
    /\ i \in 1..Len(p0_pending)
    /\ p0_pending' = RemoveAt(p0_pending, i)
    /\ LET data == P0Answer(p0_pending[i])
       IN /\ displayProducts(data.products)
          /\ P0_updatePagination(data)
    /\ UNCHANGED <<p0_currentPage, currentFilters, p0_searchInput,
                   p0_searchTimeout, p0_lastRequest, p0_message, clicked>>
    /\ P0Frame

OvNext ==
    \/ \E text \in PjSearchTexts : PjInput(text)
    \/ OvHandleSearch
    \/ \E value \in PjCategories : OvHandleFilterChange("category", value)
    \/ \E value \in PjStatuses : OvHandleFilterChange("status", value)
    \/ \E i \in 1..MaxOverlap : OvPjAnswered(i)
    \/ \E text \in P0SearchTexts : P0Input(text)
    \/ OvP0SearchTimerFires
    \/ OvP0SearchClick
    \/ \E value \in P0Categories : OvP0SelectChange("category", value)
    \/ \E value \in P0Statuses : OvP0SelectChange("status", value)
    \/ \E i \in 1..MaxOverlap : OvP0Answered(i)

\* either script right after DOMContentLoaded, its first listing request
\* in flight
OvInit ==
    \/ /\ script = "products.js"
       /\ pj_currentProducts = JsArray(<<>>) /\ pj_currentPage = 1
       /\ pj_rows = <<>> /\ pj_paginated = FALSE
       /\ pj_pageInfo = [page |-> 0, total |-> 0]
       /\ pj_prevDisabled = FALSE /\ pj_nextDisabled = FALSE
       /\ pj_dom = [category |-> "", status |-> "", search |-> <<>>]
       /\ pj_timeout = FALSE
       /\ pj_pending = <<getProducts(NoFilters)>>
       /\ pj_lastRequest = getProducts(NoFilters)
       /\ pj_notification = "" /\ pj_raised = "" /\ pj_listening = FALSE
       /\ P0Idle
    \/ /\ script = "part_000"
       /\ p0_currentPage = Num(1)
       /\ currentFilters = [search |-> "", category |-> "", status |-> ""]
       /\ p0_searchInput = "" /\ p0_searchTimeout = FALSE
       /\ p0_pending = <<P0Query(Num(1), currentFilters)>>
       /\ p0_lastRequest = P0Query(Num(1), currentFilters)
       /\ p0_table = [rows |-> <<>>, noProducts |-> FALSE]
       /\ p0_paginated = FALSE /\ p0_data = NoData
       /\ p0_prevDisabled = FALSE /\ p0_nextDisabled = FALSE
       /\ p0_pageInfo = [page |-> Undefined, pages |-> 0]
       /\ p0_message = ""
       /\ PjIdle

\* =====================================================================
\* Specifications
\* =====================================================================

StatusIdle ==
    /\ stock = 0 /\ statusClass = "" /\ statusText = ""
    /\ dashStatusText = "" /\ statusBadge = NoBadge

ListIdle ==
    /\ store = {} /\ filters = NoFilters /\ query = EmptyQuery
    /\ listing = <<>> /\ listPc = "idle"

PagesIdle ==
    /\ script = "none" /\ serverShape = "array" /\ clicked = NoClick
    /\ PjIdle /\ P0Idle /\ RpIdle
    /\ StoreIdle /\ DsIdle /\ RqIdle /\ TmIdle
    /\ DlgIdle

\* --- a page of the application: the products page under either of its
\*     scripts, or the reports page
Init ==
    /\ StatusIdle /\ ListIdle
    /\ StoreIdle /\ DsIdle /\ RqIdle /\ TmIdle
    /\ serverShape \in Shapes
    /\ clicked = NoClick
    /\ \/ script = "products.js" /\ PjInit /\ P0Idle /\ RpIdle
       \/ script = "part_000" /\ PjIdle /\ P0Init /\ RpIdle
       \/ script = "dashboard.js" /\ PjIdle /\ P0Idle /\ RpInit
    /\ DlgIdle

Next == PjNext \/ P0Next \/ RpNext

Spec == Init /\ [][Next]_vars

\* --- the stock status functions applied to one quantity
StatusFrame == UNCHANGED <<listVars, sessionVars, pjVars, p0Vars, rpVars,
                           storeVars, dsVars, rqVars, tmVars,
                       dlgVars>>

ApplyGetStatusClass ==
    /\ statusClass = ""
    /\ statusClass' = getStatusClass(stock)
    /\ UNCHANGED <<stock, statusText, dashStatusText, statusBadge>>
    /\ StatusFrame

ApplyGetStatusText ==
    /\ statusText = ""
    /\ statusText' = getStatusText(stock)
    /\ UNCHANGED <<stock, statusClass, dashStatusText, statusBadge>>
    /\ StatusFrame

ApplyDashboardGetStatusText ==
    /\ dashStatusText = ""
    /\ dashStatusText' = Dashboard_getStatusText(stock)
    /\ UNCHANGED <<stock, statusClass, statusText, statusBadge>>
    /\ StatusFrame

ApplyGetStatusBadge ==
    /\ statusBadge = NoBadge
    /\ statusBadge' = getStatusBadge(stock)
    /\ UNCHANGED <<stock, statusClass, statusText, dashStatusText>>
    /\ StatusFrame

InitStatus ==
    /\ stock \in 0..MaxStock
    /\ statusClass = "" /\ statusText = ""
    /\ dashStatusText = "" /\ statusBadge = NoBadge
    /\ ListIdle /\ PagesIdle

NextStatus ==
    \/ ApplyGetStatusClass
    \/ ApplyGetStatusText
    \/ ApplyDashboardGetStatusText
    \/ ApplyGetStatusBadge

SpecStatus == InitStatus /\ [][NextStatus]_vars

\* --- a listing query against a store
ListFrame == UNCHANGED <<statusVars, sessionVars, pjVars, p0Vars, rpVars,
                         storeVars, dsVars, rqVars, tmVars,
                       dlgVars>>

\* the client sends the listing request for the chosen filters
SendListing ==
    /\ listPc = "start"
    /\ query' = getProducts(filters)
    /\ listPc' = "sent"
    /\ UNCHANGED <<store, filters, listing>>
    /\ ListFrame

\* the server answers it
AnswerListing ==
    /\ listPc = "sent"
    /\ listing' = ServerList(store, query)
    /\ listPc' = "answered"
    /\ UNCHANGED <<store, filters, query>>
    /\ ListFrame

InitListing ==
    /\ store \in SUBSET ProductIds
    /\ filters \in [category : Categories \cup {""},
                    search : Texts(MaxSearchLen),
                    status : Statuses \cup {""}]
    /\ query = EmptyQuery
    /\ listing = <<>>
    /\ listPc = "start"
    /\ StatusIdle /\ PagesIdle

NextListing == SendListing \/ AnswerListing

SpecListing == InitListing /\ [][NextListing]_vars

\* --- changePage of products.js called with any page number
\* the products page showing page 1 of a loaded array of n products
InitChangePage ==
    /\ StatusIdle /\ ListIdle /\ P0Idle /\ RpIdle
    /\ StoreIdle /\ DsIdle /\ RqIdle /\ TmIdle
    /\ script = "products.js" /\ serverShape = "array" /\ clicked = NoClick
    /\ \E n \in 0..MaxProducts :
          /\ pj_currentProducts = JsArray(Products(n))
          /\ pj_rows = pageProducts(Products(n), 1)
          /\ pj_pageInfo = [page |-> 1, total |-> totalPagesOf(n)]
          /\ pj_nextDisabled = nextDisabledFor(1, totalPagesOf(n))
    /\ pj_currentPage = 1
    /\ pj_prevDisabled = prevDisabledFor(1)
    /\ pj_paginated = TRUE
    /\ pj_dom = [category |-> "", status |-> "", search |-> <<>>]
    /\ pj_timeout = FALSE
    /\ pj_pending = <<>>
    /\ pj_lastRequest = getProducts(NoFilters)
    /\ pj_notification = ""
    /\ pj_raised = ""
    /\ pj_listening = TRUE
    /\ DlgIdle

\* a call changePage(page)
CallChangePage(page) ==
    /\ changePage(page)
    /\ UNCHANGED clicked
    /\ PjFrame

NextChangePage == \E page \in (0 - MaxPage)..MaxPage : CallChangePage(page)

SpecChangePage == InitChangePage /\ [][NextChangePage]_vars

\* --- a page in front of the seeded product store: the products page
\*     under either of its scripts
InitStore ==
    /\ StatusIdle /\ ListIdle /\ RpIdle /\ RqIdle /\ TmIdle
    /\ db = PageSeed /\ nextId = Cardinality(PageSeed) + 1 /\ clock = 0
    /\ api_call = NoCall /\ pj_modal = NoModal /\ p0_alert = NoAlert
    /\ clicked = NoClick
    /\ \/ /\ script = "products.js" /\ serverShape \in Shapes
          /\ PjInit /\ P0Idle /\ DsIdle
       \/ /\ script = "part_000" /\ serverShape \in Shapes
          /\ PjIdle /\ P0Init /\ DsIdle
    /\ DlgIdle

NextStore == PjStoreNext \/ P0StoreNext

SpecStore == InitStore /\ [][NextStore]_vars

\* --- the dashboard page in front of the seeded product store, which
\*     another client writes to
InitDashboard ==
    /\ StatusIdle /\ ListIdle /\ RpIdle /\ PjIdle /\ P0Idle
    /\ RqIdle /\ TmIdle
    /\ db = SeedStore /\ nextId = Cardinality(SeedStore) + 1 /\ clock = 0
    /\ api_call = NoCall /\ pj_modal = NoModal /\ p0_alert = NoAlert
    /\ clicked = NoClick
    /\ script = "dashboard" /\ serverShape = "array"
    /\ DsInit
    /\ DlgIdle

SpecDashboard == InitDashboard /\ [][DsNext]_vars

\* --- calls of the API object's methods, one at a time
InitRequest ==
    /\ StatusIdle /\ ListIdle /\ PjIdle /\ P0Idle /\ RpIdle
    /\ StoreIdle /\ DsIdle /\ TmIdle
    /\ script = "part_001" /\ serverShape = "array" /\ clicked = NoClick
    /\ RqInit
    /\ DlgIdle

SpecRequest == InitRequest /\ [][RqNext]_vars

\* --- the search box of the products page under either of its scripts,
\*     typed into over time
InitDebounce ==
    /\ StatusIdle /\ ListIdle /\ PjIdle /\ P0Idle /\ RpIdle
    /\ StoreIdle /\ DsIdle /\ RqIdle
    /\ script \in {"products.js", "part_000"}
    /\ serverShape = "array" /\ clicked = NoClick
    /\ TmInit
    /\ DlgIdle

SpecDebounce == InitDebounce /\ [][TmNext]_vars

\* --- the products page under either of its scripts, its listing requests
\*     answered by the listing endpoint in any order
InitOverlap ==
    /\ StatusIdle /\ ListIdle /\ RpIdle
    /\ StoreIdle /\ DsIdle /\ RqIdle /\ TmIdle
    /\ clicked = NoClick
    /\ OvInit
    /\ serverShape = (IF script = "products.js" THEN "array" ELSE "current_page")
    /\ DlgIdle

SpecOverlap == InitOverlap /\ [][OvNext]_vars

\* =====================================================================
\* Properties
\* =====================================================================

\* the label a status is displayed with
StatusLabel(status) ==
    IF status = "out-of-stock" THEN "Out of Stock"
    ELSE IF status = "low-stock" THEN "Low Stock"
    ELSE "In Stock"

\* C1: for every non-negative stock quantity, getStatusClass and
\* getStatusText of products.js and getStatusText of dashboard.js give the
\* status of the table (0 out-of-stock, 1..9 low-stock, >= 10 in-stock), and
\* the class and the text computed for one quantity name the same status.
C1_StatusFollowsTable ==
    /\ statusClass # "" => statusClass = DerivedStatus(stock)
    /\ statusText # "" => statusText = StatusLabel(DerivedStatus(stock))
    /\ dashStatusText # "" => dashStatusText = StatusLabel(DerivedStatus(stock))
    /\ (statusClass # "" /\ statusText # "") => statusText = StatusLabel(statusClass)
    /\ (statusText # "" /\ dashStatusText # "") => statusText = dashStatusText

C1_Witness ==
    /\ stock = 10
    /\ statusClass = "in-stock"
    /\ statusText = "In Stock"
    /\ dashStatusText = "In Stock"

\* C2: getStatusBadge gives the Low Stock badge exactly for 1..9, the Out of
\* Stock badge exactly for 0 and the In Stock badge from 10 on, so it names
\* the status getStatusClass names.
C2_BadgeFollowsTable ==
    statusBadge # NoBadge =>
        /\ statusBadge.class = DerivedStatus(stock)
        /\ statusBadge.text = StatusLabel(DerivedStatus(stock))
        /\ statusClass # "" => statusBadge.class = statusClass

\* the filters of the listing contract, applied to one product
Satisfies(p, f) ==
    /\ f.search # <<>> =>
           \E field \in {p.name, p.sku, p.description} :
               Includes(ToLower(field), ToLower(f.search))
    /\ f.category # "" => p.category = f.category
    /\ f.status # "" => DerivedStatus(p.stock_quantity) = f.status

SeqToSet(seq) == {seq[i] : i \in DOMAIN seq}

\* C3: for every store and every combination of search, category and
\* status, the listing returned for getProducts(filters) holds exactly the
\* products of the store that satisfy every non-empty filter, each once.
C3_ListingIsFilteredSet ==
    listPc = "answered" =>
        /\ SeqToSet(listing) = {i \in store : Satisfies(Catalogue[i], filters)}
        /\ Len(listing) = Cardinality(SeqToSet(listing))

C3_Witness ==
    /\ listPc = "answered"
    /\ store = {1, 2, 3}
    /\ filters = [category |-> "Electronics", search |-> <<"a">>, status |-> ""]
    /\ listing = <<1, 3>>

FilterKeys == {"search", "category", "status"}

\* the keys of a part_000 request's query parameters
P0RequestKeys == {p0_lastRequest[i].key : i \in DOMAIN p0_lastRequest}

\* C4: a listing request carries the search, category or status parameter
\* if and only if that filter's current value is non-empty (part_000), and
\* no parameter of a request built by getProducts has an empty value.
C4_ParamsIffNonEmpty ==
    /\ script = "part_000" =>
           \A k \in FilterKeys : (k \in P0RequestKeys) <=> (currentFilters[k] # "")
    /\ script = "products.js" =>
           \A k \in DOMAIN pj_lastRequest :
               IF k = "search" THEN pj_lastRequest[k] # <<>>
               ELSE pj_lastRequest[k] # ""

\* C5: no consumer of GET /api/products raises on a 200 response, whichever
\* of the two forms the body has.
C5_BothFormsTolerated ==
    /\ script = "products.js" => pj_raised # "TypeError"
    /\ script = "dashboard.js" => rp_raised # "TypeError"

\* the page parameter of the last part_000 request
P0RequestPage ==
    LET ix == {i \in DOMAIN p0_lastRequest : p0_lastRequest[i].key = "page"}
    IN IF ix = {} THEN Undefined ELSE p0_lastRequest[CHOOSE i \in ix : TRUE].value

\* the last part_000 request carries every non-empty current filter with
\* its value and no filter with another value
P0RequestHasCurrentFilters ==
    /\ \A k \in FilterKeys : currentFilters[k] # "" => k \in P0RequestKeys
    /\ \A i \in DOMAIN p0_lastRequest :
           p0_lastRequest[i].key \in FilterKeys =>
               p0_lastRequest[i].value = Str(currentFilters[p0_lastRequest[i].key])

\* C6 as stated: for a response of the shape { products, total, page,
\* pages, has_prev, has_next } the indicator shows page and pages, and a click
\* on Next or Previous requests page + 1 or page - 1 with the filters.
C6_DocumentedShapePaginates ==
    (script = "part_000" /\ p0_paginated /\ "page" \in DOMAIN p0_data) =>
        /\ p0_pageInfo = [page |-> Num(p0_data.page), pages |-> p0_data.pages]
        /\ clicked.btn = "next" =>
               P0RequestPage.t = "num" /\ P0RequestHasCurrentFilters

\* C6 as amended: for a response that carries the page number as
\* current_page, { products, total, current_page, pages, has_prev, has_next },
\* the indicator shows current_page and pages, and a click on Next (Previous)
\* requests the displayed page + 1 (- 1) with the current filters.
C6_CurrentPageShapePaginates ==
    script = "part_000" =>
        /\ (p0_paginated /\ "current_page" \in DOMAIN p0_data) =>
               p0_pageInfo = [page |-> Num(p0_data.current_page),
                              pages |-> p0_data.pages]
        /\ (clicked.btn = "next" /\ clicked.from.t = "num") =>
               /\ P0RequestPage = Num(clicked.from.v + 1)
               /\ p0_currentPage = Num(clicked.from.v + 1)
               /\ P0RequestHasCurrentFilters
        /\ (clicked.btn = "prev" /\ clicked.from.t = "num") =>
               /\ P0RequestPage = Num(clicked.from.v - 1)
               /\ p0_currentPage = Num(clicked.from.v - 1)
               /\ P0RequestHasCurrentFilters

C6_Witness ==
    /\ script = "part_000"
    /\ serverShape = "current_page"
    /\ clicked = [btn |-> "next", from |-> Num(1)]
    /\ P0RequestPage = Num(2)
    /\ currentFilters.category = "Electronics"
    /\ p0_pageInfo = [page |-> Num(1), pages |-> 2]

\* C7: in products.js, once the pagination has been updated, the Next button
\* is enabled exactly when currentPage < ceil(n / 10), n the number of loaded
\* products.
C7_NextEnabledIffMorePages ==
    (script = "products.js" /\ pj_paginated) =>
        (~pj_nextDisabled <=>
            pj_currentPage < Ceil(Len(pj_currentProducts.items), productsPerPage))

\* C8: once the pagination has been updated, the Previous button is enabled
\* exactly when the current page is greater than 1 (products.js) or when the
\* last paginated response said has_prev, which the server sets for pages
\* greater than 1 (part_000); a click on it moves to the page shown minus 1.
C8_PrevEnabledIffPastFirst ==
    /\ script = "products.js" =>
           /\ pj_paginated => (~pj_prevDisabled <=> pj_currentPage > 1)
           /\ clicked.btn = "prev" =>
                  /\ pj_currentPage = clicked.from.v - 1
                  /\ pj_pageInfo.page = clicked.from.v - 1
    /\ script = "part_000" =>
           /\ p0_paginated =>
                  /\ ~p0_prevDisabled <=> p0_data.has_prev
                  /\ p0_pageInfo.page.t = "num" =>
                         (~p0_prevDisabled <=> p0_pageInfo.page.v > 1)
           /\ clicked.btn = "prev" =>
                  /\ clicked.from.t = "num"
                  /\ p0_currentPage = Num(clicked.from.v - 1)
                  /\ P0RequestPage = Num(clicked.from.v - 1)

C8_Witness ==
    /\ script = "products.js"
    /\ clicked = [btn |-> "prev", from |-> Num(2)]
    /\ pj_currentPage = 1
    /\ pj_prevDisabled
    /\ Len(pj_currentProducts.items) = 11

\* C9: the page indicator never shows a total page count below 1.
C9_NeverPageOfZero ==
    /\ (script = "products.js" /\ pj_paginated) => pj_pageInfo.total >= 1
    /\ (script = "part_000" /\ p0_paginated) => p0_pageInfo.pages >= 1

\* the rows renderProductsTable renders for pages 1..k, in page order
RECURSIVE ConcatPages(_, _)
ConcatPages(items, k) ==
    IF k = 0 THEN <<>>
    ELSE ConcatPages(items, k - 1) \o pageProducts(items, k)

\* C10: for a loaded list of n products, the rows rendered for pages
\* 1..ceil(n/10), concatenated in page order, are the list itself (nothing
\* duplicated, nothing omitted, order kept), every page renders at most 10
\* rows, and the table shows the rows of the current page.
C10_PagesPartitionTheList ==
    (script = "products.js" /\ pj_currentProducts.kind = "array") =>
        LET items == pj_currentProducts.items
            pages == Ceil(Len(items), productsPerPage)
        IN /\ ConcatPages(items, pages) = items
           /\ \A p \in 1..pages :
                  /\ Len(pageProducts(items, p)) <= productsPerPage
                  /\ Len(pageProducts(items, p)) >= 1
           /\ pj_paginated => pj_rows = pageProducts(items, pj_currentPage)

C10_Witness ==
    /\ script = "products.js"
    /\ pj_currentProducts = JsArray(Products(11))
    /\ pj_currentPage = 2
    /\ pj_rows = <<11>>
    /\ clicked.btn = "next"

\* C11: a page number beyond the last page gives an empty page and no error.
\* products.js: whenever currentPage is greater than ceil(n / 10) for the n
\* products held, the rendered table has no rows and no TypeError was
\* raised.  part_000: whenever displayProducts changes the table, it shows
\* the 'No products found' row exactly when the list it was given is empty.
C11_BeyondLastPageIsEmpty ==
    /\ [](( /\ script = "products.js"
            /\ pj_paginated
            /\ pj_currentProducts.kind = "array"
            /\ pj_currentPage > totalPagesOf(Len(pj_currentProducts.items)))
          => (pj_rows = <<>> /\ pj_raised # "TypeError"))
    /\ [][(script = "part_000" /\ p0_table' # p0_table)
            => (p0_table'.noProducts <=> p0_table'.rows = <<>>)]_vars

\* page 3 of a list of 11 products, which has two pages
C11_Witness ==
    /\ script = "products.js"
    /\ pj_paginated
    /\ pj_currentProducts.kind = "array"
    /\ Len(pj_currentProducts.items) = MaxProducts
    /\ pj_currentPage > totalPagesOf(MaxProducts)
    /\ pj_rows = <<>>

\* C12: a page number below 1 is rejected or clamped: whatever page number
\* changePage of products.js is called with, currentPage is at least 1
\* afterwards, and no listing request of part_000 carries a page number
\* below 1.
C12_PageBelowOneRejected ==
    /\ script = "products.js" => pj_currentPage >= 1
    /\ script = "part_000" =>
          \A i \in 1..Len(p0_pending) :
              p0_pending[i].t = "num" => p0_pending[i].v >= 1

\* C13: creating a product whose sku a product of the store already has
\* fails and leaves the store unchanged, so that no two products of the
\* store ever share a sku; and on the products page a create that failed
\* shows 'Error saving product', not a success notification, and leaves
\* the form open.
C13_DuplicateSkuRefused ==
    /\ [](\A p \in db : \A q \in db : p.sku = q.sku => p = q)
    /\ [][(api_call.fn = "createProduct" /\ api_call' = NoCall)
            => /\ api_call.body.sku \in Skus(db)
                    => (db' = db /\ nextId' = nextId)
               /\ (script = "products.js" /\ db' = db)
                    => /\ pj_notification' = "Error saving product"
                       /\ pj_modal' = pj_modal]_vars

\* the Add form was submitted with the sku A1, which the store holds, and
\* the server refused it
C13_Witness ==
    /\ script = "products.js"
    /\ pj_modal = [open |-> TRUE, productId |-> 0]
    /\ api_call = NoCall
    /\ pj_raised = "http"
    /\ pj_notification = "Error saving product"
    /\ "A1" \in Skus(db)

\* the ids of the products deleted so far (ids are assigned in sequence)
Deleted == (1..(nextId - 1)) \ Ids(db)

C15_UpdateKeepsIdAndCreation ==
    [][/\ \A p \in db : \A q \in db' :
             p.id = q.id =>
                 /\ q.created_at = p.created_at
                 /\ q # p => /\ q.updated_at > q.created_at
                             /\ q.updated_at > p.updated_at
       /\ (Cardinality(db') = Cardinality(db) /\ db' # db)
             => /\ Ids(db') = Ids(db)
                /\ Cardinality({p \in db : p \notin db'}) = 1]_vars

\* product 1 of the seed, created at time 0, after two successive updates,
\* the later one a full body that replaced its category
C15_Witness ==
    /\ script = "dashboard"
    /\ clock = MaxClock
    /\ \E p \in db :
          /\ p.id = 1 /\ p.created_at = 0 /\ p.updated_at = MaxClock
          /\ p.category = "Supplies"
    /\ \A p \in db : p.id # 1 => p.updated_at = 0

\* the sum of a counting map's values
RECURSIVE SumOf(_)
SumOf(f) ==
    IF DOMAIN f = {} THEN 0
    ELSE LET c == CHOOSE x \in DOMAIN f : TRUE
         IN f[c] + SumOf([x \in DOMAIN f \ {c} |-> f[x]])

\* C16: after any sequence of creates, updates and deletes GET /api/stats
\* is computed from the store as it is: total_products counts the rows,
\* out_of_stock those with stock 0, low_stock_items those with stock 1..9,
\* categories maps each category present to its number of products; the
\* category counts add up to total_products and out_of_stock +
\* low_stock_items is at most total_products.  For the seed A1 (0,
\* Electronics), A2 (5, Supplies), A3 (50, Electronics) the result is 3, 1,
\* 1 and {Electronics: 2, Supplies: 1}.  Whenever loadStatistics rewrites
\* the dashboard's cards, they show the counts of the store as it is then.
C16_StatsFollowTheStore ==
    /\ [](LET stats == ServerStats(db)
              byCategory(c) == Cardinality({p \in db : p.category = c})
          IN /\ stats.total_products = Cardinality(db)
             /\ stats.out_of_stock =
                    Cardinality({p \in db : p.stock_quantity = 0})
             /\ stats.low_stock_items =
                    Cardinality({p \in db : p.stock_quantity \in 1..9})
             /\ DOMAIN stats.categories = {p.category : p \in db}
             /\ \A c \in DOMAIN stats.categories :
                    stats.categories[c] = byCategory(c)
             /\ SumOf(stats.categories) = stats.total_products
             /\ stats.out_of_stock + stats.low_stock_items
                    <= stats.total_products
             /\ db = SeedStore =>
                    /\ stats.total_products = 3
                    /\ stats.out_of_stock = 1
                    /\ stats.low_stock_items = 1
                    /\ DOMAIN stats.categories = {"Electronics", "Supplies"}
                    /\ stats.categories["Electronics"] = 2
                    /\ stats.categories["Supplies"] = 1)
    /\ [][ds_cards' # ds_cards =>
            ds_cards' =
              [total |-> Cardinality(db'),
               low |-> Cardinality({p \in db' : p.stock_quantity \in 1..9}),
               categories |-> Cardinality({p.category : p \in db'}),
               out |-> Cardinality({p \in db' : p.stock_quantity = 0})]]_vars

\* a fourth product (in stock, Furniture) was added to the seed by another
\* client, and the dashboard's next refresh shows the new counts
C16_Witness ==
    /\ script = "dashboard"
    /\ clock > 0
    /\ Cardinality(db) = 4
    /\ ServerStats(db).total_products = 4
    /\ ds_cards = [total |-> 4, low |-> 1, categories |-> 3, out |-> 1]

\* C17: on every single failed API call of a page, the page shows a short
\* message to the user and no exception escapes the handler.  On the
\* dashboard page: whenever one of loadStatistics, loadRecentActivity and
\* loadInventoryOverview has caught a failed call (and logged it), a
\* notification is shown; on the reports page likewise for
\* loadSummaryStats and exportData; on the products pages a failed call
\* leaves its message.
C17_FailedCallShowsMessage ==
    /\ (script = "dashboard" /\ ds_console # "") => ds_notification # ""
    /\ (script = "dashboard.js" /\ rp_raised # "") => rp_notification # ""
    /\ (script = "products.js" /\ pj_raised # "") => pj_notification # ""

\* C19: when GET /api/products/{id} is answered not-found (the product is
\* not in the store), editProduct shows an error message and presents no
\* product details: products.js notifies 'Error loading product details'
\* and opens no modal; part_000 shows 'Failed to load product details.'
\* and no alert.
C19_EditOfMissingProductShowsError ==
    [][(api_call.fn = "getProduct" /\ api_call' = NoCall
            /\ api_call.id \notin Ids(db))
        => /\ script = "products.js" =>
                 /\ pj_notification' = "Error loading product details"
                 /\ pj_modal' = pj_modal
           /\ script = "part_000" =>
                 /\ p0_message' = "Failed to load product details."
                 /\ p0_alert' = p0_alert]_vars

\* C18: every call of InventoryAPI.request issues exactly one fetch.  When
\* that fetch is rejected (network failure) or answers with a non-OK
\* status, the call throws to its caller, the status in the error, and no
\* second fetch is issued; when it answers with an OK status the call
\* returns the body parsed as JSON.
C18_RequestFetchesOnceAndThrows ==
    /\ rq_pc \in {"fetch", "done"} => Len(rq_fetched) = 1
    /\ rq_pc = "done" =>
          /\ rq_response.kind = "rejected" => rq_outcome.kind = "thrown"
          /\ (rq_response.kind = "response" /\ ~Ok(rq_response.status)) =>
                /\ rq_outcome.kind = "thrown"
                /\ rq_outcome.status = rq_response.status
          /\ (rq_response.kind = "response" /\ Ok(rq_response.status)) =>
                /\ rq_outcome = Returned(JsonParse(rq_response.text))
                /\ rq_response.text = "{\"id\":1}" =>
                      rq_outcome.value.kind = "object"
                          /\ rq_outcome.value.id = 1
                /\ rq_response.text = "[]" =>
                      rq_outcome.value.kind = "array"

\* a call of deleteProduct has thrown on a 500, logged it, and issued
\* its one fetch
C18_Witness ==
    /\ rq_pc = "done"
    /\ rq_response.kind = "response" /\ rq_response.status = 500
    /\ rq_outcome.kind = "thrown"
    /\ Len(rq_fetched) = 1 /\ rq_fetched[1].method = "DELETE"
    /\ rq_console = <<"API request failed:", "HTTP error! status: ">>

\* the runs of the search handler made by the timer of one input event
RunsOf(event) == {i \in 1..Len(tm_ran) : tm_ran[i].event = event}

\* C20: the debounced search is a timer reset.  At most one timer is
\* pending at any time; the search handler runs only for the last input
\* event so far and only when the full wait (300 ms in products.js, 500 ms
\* in part_000) has passed since that event; it runs at most once for an
\* event, with the value the input had at that event; and once the wait
\* and one more unit of time have passed since the last input event, the
\* handler has run exactly once for it.
C20_DebounceIsTimerReset ==
    /\ Cardinality(tm_timers) <= 1
    /\ \A i \in 1..Len(tm_ran) :
          /\ tm_ran[i].event = tm_ran[i].events
          /\ script = "products.js" => tm_ran[i].quiet >= 300
          /\ script = "part_000" => tm_ran[i].quiet >= 500
          /\ tm_ran[i].value = tm_events[tm_ran[i].event]
    /\ \A e \in 1..Len(tm_events) : Cardinality(RunsOf(e)) <= 1
    /\ \A w \in {300, 500} :
          (/\ tm_events # <<>>
           /\ script = (IF w = 300 THEN "products.js" ELSE "part_000")
           /\ tm_quiet >= w + TimeUnit)
              => Cardinality(RunsOf(Len(tm_events))) = 1

\* a burst of two input events with less than the wait between them, and
\* the handler has run once, for the second
C20_Witness ==
    /\ Len(tm_events) = 2 /\ tm_events[1] # tm_events[2]
    /\ Len(tm_ran) = 1 /\ tm_ran[1].event = 2
    /\ tm_ran[1].value = tm_events[2]
    /\ tm_timers = {}

\* the filters of part_000 that a step changes
FiltersChanged ==
    {k \in {"search", "category", "status"} :
        currentFilters'[k] # currentFilters[k]}

\* C21: in part_000 every step of a filter handler (search timer, search
\* button, category select, status select: the steps that issue a listing
\* request and are not pagination clicks) sets currentPage to 1 and issues
\* the request for page 1 with the filters as they are after the step, of
\* which at most one differs from before; and a step that leaves
\* currentPage at a value other than 1 that it did not have before is a
\* click on Previous or Next.
C21_FilterChangeLoadsPageOne ==
    [][script = "part_000" =>
          /\ (Len(p0_pending') > Len(p0_pending) /\ clicked' = NoClick) =>
                /\ p0_currentPage' = Num(1)
                /\ ParamOf(p0_lastRequest', "page") = Num(1)
                /\ \A k \in {"search", "category", "status"} :
                      ParamOf(p0_lastRequest', k) = Str(currentFilters'[k])
                /\ Cardinality(FiltersChanged) <= 1
          /\ (p0_currentPage' # p0_currentPage /\ p0_currentPage' # Num(1)) =>
                /\ clicked'.btn \in {"prev", "next"}
                /\ FiltersChanged = {}]_vars

\* on page 2 of a search for "a" the category was changed: the request in
\* flight is for page 1 of that category and that search
C21_Witness ==
    /\ script = "part_000"
    /\ p0_pageInfo.page = Num(2)
    /\ p0_pending # <<>> /\ clicked = NoClick
    /\ p0_currentPage = Num(1)
    /\ currentFilters = [search |-> "a", category |-> "Electronics", status |-> ""]
    /\ ParamOf(p0_lastRequest, "page") = Num(1)
    /\ ParamOf(p0_lastRequest, "category") = Str("Electronics")
    /\ ParamOf(p0_lastRequest, "search") = Str("a")

\* C22: once no listing request is outstanding, the table, the stored
\* product list and the pagination controls are those of the answer to the
\* most recently issued request, whatever order the answers came in.
C22_LastRequestWins ==
    /\ (script = "products.js" /\ pj_pending = <<>>) =>
          LET shown == PjShown(ServerList(ProductIds, pj_lastRequest),
                               pj_currentPage)
          IN /\ pj_currentProducts = shown.currentProducts
             /\ pj_rows = shown.rows
             /\ pj_pageInfo = shown.pageInfo
             /\ pj_prevDisabled = shown.prevDisabled
             /\ pj_nextDisabled = shown.nextDisabled
    /\ (script = "part_000" /\ p0_pending = <<>>) =>
          LET data == P0Answer(p0_lastRequest)
          IN /\ p0_table.rows = data.products
             /\ p0_data = data
             /\ p0_pageInfo = pageInfoOf(data)
             /\ p0_prevDisabled = ~data.has_prev
             /\ p0_nextDisabled = ~data.has_next

\* C23: in products.js, whenever a product list is loaded, currentPage is
\* at least 1 and at most max(1, ceil(n / 10)) for the n products loaded,
\* so that a non-empty list is never shown as an empty page.
C23_CurrentPageWithinPages ==
    (script = "products.js" /\ pj_currentProducts.kind = "array") =>
        LET n == Len(pj_currentProducts.items)
        IN /\ 1 <= pj_currentPage
           /\ pj_currentPage <= Max(1, Ceil(n, productsPerPage))
           /\ (n > 0 /\ pj_paginated) => pj_rows # <<>>

\* C24: when the user declines the delete confirmation, in either
\* script, no DELETE request is sent, no listing reload is issued, no
\* message is shown, and the page, the filters, the displayed products and
\* the store stay as they were.
C24_DeclinedDeleteChangesNothing ==
    [][(declined' /\ ~declined) =>
          /\ api_call' = api_call
          /\ UNCHANGED <<db, nextId, clock>>
          /\ script = "products.js" =>
                UNCHANGED <<pj_pending, pj_lastRequest, pj_notification,
                            pj_currentPage, pj_dom, pj_currentProducts,
                            pj_rows, pj_pageInfo, pj_modal>>
          /\ script = "part_000" =>
                UNCHANGED <<p0_pending, p0_lastRequest, p0_message,
                            p0_currentPage, currentFilters, p0_table,
                            p0_data, p0_pageInfo, p0_alert>>]_vars

\* a delete was declined on the loaded page: the product is still in the
\* store and in the table, and nothing is in flight
C24_Witness ==
    /\ declined
    /\ api_call = NoCall
    /\ db = PageSeed
    /\ \/ script = "products.js" /\ pj_rows = <<1, 2>> /\ pj_pending = <<>>
             /\ pj_notification = ""
       \/ script = "part_000" /\ p0_table.rows = <<1, 2>> /\ p0_pending = <<>>
             /\ p0_message = ""

\* C25: a submit of the product form sends exactly one write, an update
\* of the product the form was opened for or else a create, and nothing
\* else.  When the write is answered and has been applied (once), the
\* modal is closed and the listing is requested again with the active
\* filters; when it has failed, 'Error saving product' is shown, the modal
\* is left as it is (open, unless the user has closed it meanwhile), no
\* listing is requested and the displayed products stay.
C25_SubmitWritesOnce ==
    [][script = "products.js" =>
          /\ (api_call = NoCall
                /\ api_call'.fn \in {"createProduct", "updateProduct"}) =>
                /\ pj_modal.open
                /\ pj_modal.productId # 0 =>
                      /\ api_call'.fn = "updateProduct"
                      /\ api_call'.id = pj_modal.productId
                /\ pj_modal.productId = 0 => api_call'.fn = "createProduct"
                /\ UNCHANGED <<db, nextId, clock, pj_pending, pj_modal>>
          /\ (api_call.fn \in {"createProduct", "updateProduct"}
                /\ api_call' = NoCall) =>
                IF clock' # clock
                THEN /\ clock' = clock + 1
                     /\ Cardinality(db') = Cardinality(db)
                           + (IF api_call.fn = "createProduct" THEN 1 ELSE 0)
                     /\ pj_modal' = NoModal
                     /\ pj_pending' = Append(pj_pending, "save")
                     /\ pj_lastRequest' = getProducts(getActiveFilters(pj_dom))
                ELSE /\ db' = db
                     /\ pj_notification' = "Error saving product"
                     /\ pj_modal' = pj_modal
                     /\ UNCHANGED <<pj_pending, pj_lastRequest,
                                    pj_currentProducts, pj_rows, pj_pageInfo,
                                    pj_currentPage>>]_vars

\* the form opened for product 2 was submitted with the sku of product 1
\* and refused: the modal is still open on product 2 and the error shows
C25_Witness ==
    /\ script = "products.js"
    /\ pj_modal.open /\ pj_modal.productId = 2
    /\ api_call = NoCall
    /\ pj_notification = "Error saving product" /\ pj_raised = "http"
    /\ clock = 0 /\ db = PageSeed
    /\ pj_pending = <<>>

====
